---- MODULE Spec2Model ----
(***************************************************************************)
(* ImageBox: image generation, refinement and reroll.                      *)
(*                                                                         *)
(* The model follows the renderer code: the Artifact Store                 *)
(* (packages/imageStorage), the Generation Dispatcher                      *)
(* (packages/imageGeneration), the session store (stores/sessionActions)   *)
(* and the handlers of the message list that start generations,            *)
(* refinements and rerolls.  An asynchronous handler is a task whose pc    *)
(* stands at the await it is suspended on; one action runs the code        *)
(* between two awaits.  Text is modelled by TLA+ strings, "undefined" by   *)
(* the value Undefined.                                                    *)
(***************************************************************************)
EXTENDS Integers, Sequences, FiniteSets, TLC

(***************************************************************************)
(* Bounds of the model.                                                    *)
(***************************************************************************)
\* handler invocations (generation, refinement, reroll) in one behaviour
MaxTasks == 3
\* handler invocations suspended at the same time
MaxInFlight == 2
\* values Math.random() is allowed to draw in the model: 0..MaxRandom
MaxRandom == 1

(***************************************************************************)
(* JavaScript values and string helpers.                                   *)
(***************************************************************************)
Undefined == "<undefined>"

\* JS truthiness of a string-or-undefined value
Truthy(v) == v # Undefined /\ v # ""

\* JS  v || d
OrElse(v, d) == IF Truthy(v) THEN v ELSE d

Min(S) == CHOOSE x \in S : \A y \in S : x <= y

\* String.prototype.startsWith
StartsWith(s, p) == Len(s) >= Len(p) /\ SubSeq(s, 1, Len(p)) = p

\* String.prototype.indexOf, 1-based; 0 when p does not occur in s
IndexOf(s, p) ==
  LET hits == {i \in 1..(Len(s) - Len(p) + 1) : SubSeq(s, i, i + Len(p) - 1) = p}
  IN  IF hits = {} THEN 0 ELSE Min(hits)

\* String.prototype.includes
Includes(s, p) == IndexOf(s, p) # 0

\* String.prototype.substring(0, n)
Substring0(s, n) ==
  IF n <= 0 THEN "" ELSE IF n >= Len(s) THEN s ELSE SubSeq(s, 1, n)

IsSpace(c) == c \in {" ", "\n", "\t", "\r"}

\* the index of the first character of s from i on that is no white space
RECURSIVE SkipSpaces(_, _)
SkipSpaces(s, i) ==
  IF i <= Len(s) /\ IsSpace(SubSeq(s, i, i)) THEN SkipSpaces(s, i + 1) ELSE i

\* the index of the last character of s up to i that is no white space
RECURSIVE SkipSpacesBack(_, _)
SkipSpacesBack(s, i) ==
  IF i >= 1 /\ IsSpace(SubSeq(s, i, i)) THEN SkipSpacesBack(s, i - 1) ELSE i

TrimStart(s) == SubSeq(s, SkipSpaces(s, 1), Len(s))

TrimEnd(s) == SubSeq(s, 1, SkipSpacesBack(s, Len(s)))

\* String.prototype.trim
Trim(s) == TrimEnd(TrimStart(s))

\* s.split(sep)[0]
SplitFirst(s, sep) ==
  LET i == IndexOf(s, sep) IN IF i = 0 THEN s ELSE SubSeq(s, 1, i - 1)

(***************************************************************************)
(* Artifact Store: paths and references (imageStorage.ts).                 *)
(***************************************************************************)
\* platform.getAppDataDir(): the user-data directory of the application
AppDataDir == "/Users/u/Application Support/ImageBox"

\* the session the message list is showing (currentSession.id)
CurrentSessionId == "s1"

\* encodeURIComponent on one character of a path: of the characters that
\* occur in the paths of the model only the space is escaped
EncodeChar(c) == IF c = " " THEN "%20" ELSE c

\* the forEach of getFileUrl: every segment encoded, the slashes kept
RECURSIVE EncodeFrom(_, _)
EncodeFrom(p, i) ==
  IF i > Len(p) THEN ""
  ELSE (IF SubSeq(p, i, i) = "/" THEN "/" ELSE EncodeChar(SubSeq(p, i, i)))
       \o EncodeFrom(p, i + 1)

EncodePath(p) == EncodeFrom(p, 1)

\* filePath.replace(/\\/g, '/')
RECURSIVE NormalizeFrom(_, _)
NormalizeFrom(p, i) ==
  IF i > Len(p) THEN ""
  ELSE (IF SubSeq(p, i, i) = "\\" THEN "/" ELSE SubSeq(p, i, i))
       \o NormalizeFrom(p, i + 1)

NormalizeSlashes(p) == NormalizeFrom(p, 1)

getFileUrl(filePath) ==
  IF StartsWith(filePath, "http://") \/ StartsWith(filePath, "https://")
     \/ StartsWith(filePath, "file://")
  THEN filePath
  ELSE LET normalizedPath == NormalizeSlashes(filePath)
           pathWithPrefix == IF StartsWith(normalizedPath, "/") THEN normalizedPath
                             ELSE "/" \o normalizedPath
       IN  "file://" \o EncodePath(pathWithPrefix)

\* baseImageDir as initImageStorage sets it
BaseDirOf(appDataDir) == appDataDir \o "/images"

\* sessionDir of getSessionDirectory
SessionDirOf(base, sessionId) == base \o "/" \o sessionId

\* `${Date.now()}-${uuidv4().substring(0, 8)}.png`: n stands for the pair of
\* the clock value and the random suffix of one call
FileName(n) == "1700000000000-" \o ToString(n) \o ".png"

FilePathOf(base, sessionId, n) == SessionDirOf(base, sessionId) \o "/" \o FileName(n)

\* the development placeholder of saveImageFromUrl's catch block
PicsumUrl(r) == "https://picsum.photos/1024/1024?random=" \o ToString(r)

(***************************************************************************)
(* Session store (stores/sessionActions).                                  *)
(***************************************************************************)
\* message.history === undefined
NoHistory == <<Undefined>>

\* a message with every optional field undefined
BlankMsg ==
  [id |-> 0, role |-> "", content |-> "", generating |-> FALSE,
   imageUrl |-> Undefined, originalPrompt |-> Undefined,
   refinementPrompt |-> Undefined, imageDescription |-> Undefined,
   fullPrompt |-> Undefined, history |-> NoHistory, annotations |-> <<>>,
   error |-> Undefined, errorCode |-> 0, isReroll |-> FALSE]

\* createMessage(role, content) with the uuid id
createMessage(id, role, content) ==
  [BlankMsg EXCEPT !.id = id, !.role = role, !.content = content]

\* initEmptyChatSession() with its id overwritten by the caller
initEmptyChatSession(sessionId) ==
  [id |-> sessionId,
   messages |-> <<createMessage(0, "system", "default prompt")>>]

HasSession(ss, sessionId) == \E i \in DOMAIN ss : ss[i].id = sessionId

ensureSessionExists(ss, sessionId) ==
  IF HasSession(ss, sessionId) THEN ss
  ELSE Append(ss, initEmptyChatSession(sessionId))

insertMessage(ss, sessionId, msg) ==
  LET s1 == ensureSessionExists(ss, sessionId)
  IN  IF ~HasSession(s1, sessionId)
      THEN Append(s1, [id |-> sessionId,
                       messages |-> Append(initEmptyChatSession(sessionId).messages, msg)])
      ELSE [i \in DOMAIN s1 |->
              IF s1[i].id = sessionId
              THEN [s1[i] EXCEPT !.messages = Append(@, msg)]
              ELSE s1[i]]

\* a `handle` that overwrites the newest message whatever its id
handleNewest(msgs, updated) ==
  IF Len(msgs) > 0 THEN [msgs EXCEPT ![Len(msgs)] = updated] ELSE <<updated>>

\* the closure `handle` of modifyMessage: replace the message that has the
\* id of `updated`, append `updated` when no message has it
handle(msgs, updated) ==
  IF \E i \in DOMAIN msgs : msgs[i].id = updated.id
  THEN [i \in DOMAIN msgs |-> IF msgs[i].id = updated.id THEN updated ELSE msgs[i]]
  ELSE Append(msgs, updated)

modifyMessage(ss, sessionId, updated) ==
  LET s1 == ensureSessionExists(ss, sessionId)
  IN  IF ~HasSession(s1, sessionId)
      THEN Append(s1, [id |-> sessionId,
                       messages |-> Append(initEmptyChatSession(sessionId).messages, updated)])
      ELSE [i \in DOMAIN s1 |->
              IF s1[i].id = sessionId
              THEN [s1[i] EXCEPT !.messages = handle(@, updated)]
              ELSE s1[i]]

\* getSession(sessionId).messages, empty when the session is missing
MessagesOf(ss, sessionId) ==
  IF HasSession(ss, sessionId)
  THEN (CHOOSE s \in {ss[i] : i \in DOMAIN ss} : s.id = sessionId).messages
  ELSE <<>>

(***************************************************************************)
(* Refinement prompt composition (ImageMessage.handleFeedbackSubmit,       *)
(* spatialProcessing.generateRefinementPrompt, imageGeneration.refineImage)*)
(***************************************************************************)
AnalysisHeader == "## REFERENCE IMAGE ANALYSIS"

\* the prompt handleFeedbackSubmit builds from the global feedback and the
\* annotations that carry feedback
RECURSIVE FeedbackLines(_, _)
FeedbackLines(annotations, idx) ==
  IF idx > Len(annotations) THEN ""
  ELSE (IF Truthy(annotations[idx].feedback)
        THEN ToString(idx) \o ": " \o annotations[idx].spatialReference \o " - "
             \o annotations[idx].feedback \o "\n"
        ELSE "")
       \o FeedbackLines(annotations, idx + 1)

handleFeedbackSubmitPrompt(globalFeedback, annotations) ==
  (IF Truthy(globalFeedback) THEN globalFeedback \o "\n\n" ELSE "")
  \o FeedbackLines(annotations, 1)

\* generateAnnotationsDescription; the annotations handed over by
\* handleFeedbackSubmit carry their spatialReference, which is reused
RECURSIVE RegionDescriptions(_, _)
RegionDescriptions(annotations, idx) ==
  IF idx > Len(annotations) THEN ""
  ELSE "Region " \o ToString(idx) \o ": " \o annotations[idx].spatialReference
       \o ". Feedback: " \o annotations[idx].feedback
       \o (IF idx < Len(annotations) THEN "\n\n" ELSE "")
       \o RegionDescriptions(annotations, idx + 1)

generateAnnotationsDescription(annotations) ==
  IF Len(annotations) = 0 THEN "" ELSE RegionDescriptions(annotations, 1)

maxDescLength == 800

\* a reference analysis that is embedded whole
truncatedDescWhole(description) == description

\* generateRefinementPrompt, lines 236-240: the part of the description that
\* is embedded
truncatedDesc(description) ==
  IF Len(description) > maxDescLength
  THEN Substring0(description, maxDescLength) \o "..."
  ELSE description

generateRefinementPrompt(prompt, description, annotations, globalFeedback) ==
  "# IMAGE REFINEMENT\n\n"
  \o "## ORIGINAL: \"" \o prompt \o "\"\n\n"
  \o (IF Truthy(description)
      THEN AnalysisHeader \o "\n"
           \o truncatedDesc(description)
           \o "\n\n"
      ELSE "")
  \o (IF Truthy(globalFeedback) /\ Truthy(Trim(globalFeedback))
      THEN "## GLOBAL CHANGES\n" \o globalFeedback \o "\n\n"
      ELSE "")
  \o (IF Len(annotations) > 0
      THEN "## REGION CHANGES\n" \o generateAnnotationsDescription(annotations) \o "\n\n"
      ELSE "")
  \o "## APPROACH\n"
  \o "1. Use reference analysis as base\n"
  \o "2. Apply specified changes\n"
  \o "3. Maintain composition and style consistency\n"

\* the template of refineImage's combinedPrompt
CombinedTemplate(originalPrompt, instructions) ==
  "Original image prompt: \"" \o originalPrompt \o "\"\n\nRefinement instructions: "
  \o instructions

PromptBudget == 3800
maxDescriptionLength == 1000
TemplateReserve == 50

\* refineImage, lines 752-801: the instruction before any truncation
spatialRefinementPromptOf(originalPrompt, refinementPrompt, imageDescription, annotations) ==
  IF Len(annotations) > 0 /\ ~Includes(refinementPrompt, AnalysisHeader)
  THEN generateRefinementPrompt(originalPrompt, imageDescription, annotations,
                                Trim(SplitFirst(refinementPrompt, "\n\n")))
  ELSE refinementPrompt

\* refineImage, lines 803-839: the prompt handed to generateImage and the
\* description left on the options object
refineCompose(originalPrompt, refinementPrompt, imageDescription, annotations) ==
  LET spatial == spatialRefinementPromptOf(originalPrompt, refinementPrompt,
                                           imageDescription, annotations)
      combined0 == CombinedTemplate(originalPrompt, spatial)
      descriptionLength == IF Truthy(imageDescription) THEN Len(imageDescription) ELSE 0
      over == Len(combined0) + descriptionLength > PromptBudget
      desc1 == IF over /\ Truthy(imageDescription)
                  /\ Len(imageDescription) > maxDescriptionLength
               THEN Substring0(imageDescription, maxDescriptionLength)
                    \o "... [description truncated to fit DALL-E character limit]"
               ELSE imageDescription
      maxRefinementLength == PromptBudget - Len(originalPrompt) - TemplateReserve
      spatial1 == IF over /\ Len(combined0) > PromptBudget
                  THEN Substring0(spatial, maxRefinementLength)
                       \o "... [refinement truncated to fit DALL-E character limit]"
                  ELSE spatial
  IN  [combinedPrompt |-> CombinedTemplate(originalPrompt, spatial1),
       imageDescription |-> desc1]

\* refineImage, line 756: the vision description is requested inside
\* refineImage only when the options carry none
NeedsVisionDescription(refinementPrompt, imageDescription, imageUrl, apiKey) ==
  ~Truthy(imageDescription) /\ Truthy(imageUrl) /\ Truthy(apiKey)
  /\ ~Includes(refinementPrompt, AnalysisHeader)

\* handleRerollImage, lines 209-216
enhancedRefinementPromptOf(message) ==
  IF Truthy(message.imageDescription)
  THEN AnalysisHeader \o "\n" \o message.imageDescription \o "\n\n"
       \o message.refinementPrompt
  ELSE message.refinementPrompt

\* handleRerollImage, lines 178-189
RerollHistoryDropsCurrent(message) ==
  IF message.history # NoHistory
  THEN SelectSeq(message.history, LAMBDA url : Truthy(url) /\ Trim(url) # "")
  ELSE NoHistory

RerollHistory(message) ==
  IF message.history # NoHistory
  THEN IF Truthy(message.imageUrl)
       THEN Append(SelectSeq(message.history, LAMBDA url : Truthy(url) /\ Trim(url) # ""),
                   message.imageUrl)
       ELSE SelectSeq(message.history, LAMBDA url : Truthy(url) /\ Trim(url) # "")
  ELSE IF Truthy(message.imageUrl) THEN <<message.imageUrl>> ELSE NoHistory

\* handleRefineImage, lines 362-363
RefineHistory(message) ==
  SelectSeq(Append(IF message.history = NoHistory THEN <<>> ELSE message.history,
                   message.imageUrl),
            LAMBDA url : url # Undefined /\ Trim(url) # "")

(***************************************************************************)
(* Settings and the backend adapters (imageGeneration.ts).                 *)
(***************************************************************************)
\* the settings the image handlers read: one per adapter, one without the
\* OpenAI key, one with a model the dispatcher does not know; the toolbar
\* offers "Upload previous image" when GPT-4o is selected
SettingsChoices ==
  { [imageGenerationModel |-> "dall-e-3", stableDiffusionProvider |-> Undefined,
     openaiKey |-> "sk-key", stableDiffusionAPIKey |-> Undefined,
     stableDiffusionHost |-> Undefined,
     uploadPreviousImage |-> FALSE],
    [imageGenerationModel |-> "dall-e-3", stableDiffusionProvider |-> Undefined,
     openaiKey |-> "", stableDiffusionAPIKey |-> Undefined,
     stableDiffusionHost |-> Undefined,
     uploadPreviousImage |-> FALSE],
    [imageGenerationModel |-> "gpt-4o", stableDiffusionProvider |-> Undefined,
     openaiKey |-> "sk-key", stableDiffusionAPIKey |-> Undefined,
     stableDiffusionHost |-> Undefined,
     uploadPreviousImage |-> FALSE],
    [imageGenerationModel |-> "gpt-4o", stableDiffusionProvider |-> Undefined,
     openaiKey |-> "sk-key", stableDiffusionAPIKey |-> Undefined,
     stableDiffusionHost |-> Undefined,
     uploadPreviousImage |-> TRUE],
    [imageGenerationModel |-> "stable-diffusion", stableDiffusionProvider |-> Undefined,
     openaiKey |-> "", stableDiffusionAPIKey |-> Undefined,
     stableDiffusionHost |-> Undefined,
     uploadPreviousImage |-> FALSE],
    [imageGenerationModel |-> "stable-diffusion",
     stableDiffusionProvider |-> "stablediffusionapi",
     openaiKey |-> "", stableDiffusionAPIKey |-> "sd-key",
     stableDiffusionHost |-> Undefined,
     uploadPreviousImage |-> FALSE],
    [imageGenerationModel |-> "stable-diffusion", stableDiffusionProvider |-> "replicate",
     openaiKey |-> "sk-key", stableDiffusionAPIKey |-> "sd-key",
     stableDiffusionHost |-> Undefined,
     uploadPreviousImage |-> FALSE],
    [imageGenerationModel |-> "stable-diffusion", stableDiffusionProvider |-> "custom",
     openaiKey |-> "", stableDiffusionAPIKey |-> Undefined,
     stableDiffusionHost |-> "https://sd.example.org/generate",
     uploadPreviousImage |-> FALSE],
    [imageGenerationModel |-> "midjourney", stableDiffusionProvider |-> Undefined,
     openaiKey |-> "sk-key", stableDiffusionAPIKey |-> Undefined,
     stableDiffusionHost |-> Undefined,
     uploadPreviousImage |-> FALSE] }

\* the branch generateImage and generateWithStableDiffusion take
AdapterOf(st) ==
  IF st.imageGenerationModel \in {"dall-e-3", "dall-e-2"} THEN "dalle"
  ELSE IF st.imageGenerationModel = "gpt-4o" THEN "gpt4o"
  ELSE IF st.imageGenerationModel = "stable-diffusion"
       THEN LET provider == OrElse(st.stableDiffusionProvider, "local")
            IN  IF provider = "local" THEN "local"
                ELSE IF provider = "stablediffusionapi" THEN "sdapi"
                ELSE IF provider = "replicate" THEN "replicate"
                ELSE IF provider = "custom" THEN "custom"
                ELSE "local"
  ELSE "unsupported"

\* the checks an adapter makes before its first request: the error it ends
\* with, "" when it goes on
PreCheck(adapter, st) ==
  IF adapter = "dalle" /\ ~Truthy(st.openaiKey)
  THEN "API key is required for DALL-E image generation"
  ELSE IF adapter = "gpt4o" /\ ~Truthy(st.openaiKey)
  THEN "API key is required for GPT-4o image generation"
  ELSE IF adapter = "sdapi" /\ ~Truthy(st.stableDiffusionAPIKey)
  THEN "API key is required for StableDiffusionAPI.com"
  ELSE IF adapter = "replicate" /\ ~Truthy(st.stableDiffusionAPIKey)
  THEN "API key is required for Replicate"
  ELSE IF adapter = "custom" /\ ~Truthy(st.stableDiffusionHost)
  THEN "Host URL is required for custom Stable Diffusion API"
  ELSE IF adapter = "unsupported"
  THEN "Unsupported model: " \o st.imageGenerationModel
  ELSE ""

\* what a backend answers.  ok: the transport and the HTTP status; the other
\* fields are the fields of the JSON body the adapters look at
\* (NotAString: a value that is not a string)
NotAString == "<object>"

BlankResponse ==
  [ok |-> TRUE, status |-> Undefined, dataUrl |-> Undefined, outputStr |-> Undefined,
   outputArr |-> <<>>, images |-> <<>>, result |-> Undefined, url |-> Undefined,
   error |-> Undefined, pollUrl |-> Undefined]

OpenAiImageUrl == "https://oaidalleapiprodscus.blob.core.windows.net/private/img.png"
SdApiImageUrl == "https://cdn2.stablediffusionapi.com/generations/img.png"
ReplicateImageUrl == "https://replicate.delivery/pbxt/out-0.png"
CustomImageUrl == "https://sd.example.org/out/img.png"
Base64Image == "iVBORw0KGgo="

Responses(adapter) ==
  IF adapter \in {"dalle", "gpt4o"}
  THEN { [BlankResponse EXCEPT !.ok = FALSE, !.error = "server error"],
         BlankResponse,
         [BlankResponse EXCEPT !.dataUrl = OpenAiImageUrl] }
  ELSE IF adapter = "local"
  THEN { [BlankResponse EXCEPT !.ok = FALSE, !.error = "server error"],
         BlankResponse,
         [BlankResponse EXCEPT !.images = <<Base64Image>>] }
  ELSE IF adapter = "sdapi"
  THEN { [BlankResponse EXCEPT !.status = "error", !.error = "server error"],
         [BlankResponse EXCEPT !.status = "success"],
         [BlankResponse EXCEPT !.status = "success", !.outputArr = <<SdApiImageUrl>>] }
  ELSE IF adapter = "replicate"
  THEN { [BlankResponse EXCEPT !.ok = FALSE, !.error = "server error"],
         BlankResponse,
         [BlankResponse EXCEPT !.pollUrl = "https://api.replicate.com/v1/predictions/p1",
                               !.status = "processing"],
         [BlankResponse EXCEPT !.pollUrl = "https://api.replicate.com/v1/predictions/p1",
                               !.status = "failed", !.error = "NSFW content"],
         [BlankResponse EXCEPT !.pollUrl = "https://api.replicate.com/v1/predictions/p1",
                               !.status = "succeeded"],
         [BlankResponse EXCEPT !.pollUrl = "https://api.replicate.com/v1/predictions/p1",
                               !.status = "succeeded", !.outputArr = <<ReplicateImageUrl>>] }
  ELSE IF adapter = "custom"
  THEN { [BlankResponse EXCEPT !.ok = FALSE, !.error = "server error"],
         BlankResponse,
         [BlankResponse EXCEPT !.outputStr = CustomImageUrl],
         [BlankResponse EXCEPT !.images = <<Base64Image>>],
         [BlankResponse EXCEPT !.images = <<NotAString>>, !.url = CustomImageUrl] }
  ELSE {}

\* what an adapter makes of the answer: a failure with its message, a
\* remote URL to download, or a data URL to save
Fail(message) == [tag |-> "fail", val |-> message]
RemoteUrl(u) == [tag |-> "url", val |-> u]
DataUrl(d) == [tag |-> "data", val |-> d]

First(seq) == IF Len(seq) > 0 THEN seq[1] ELSE Undefined

\* generateWithReplicate, lines 569-577: after the polling loop, `result`
\* being the body of the last poll
ReplicateAfterPoll(result) ==
  IF result.status # "succeeded"
  THEN Fail("Timed out waiting for Replicate to generate image")
  ELSE IF ~Truthy(First(result.outputArr))
  THEN Fail("No image URL returned from Replicate")
  ELSE RemoteUrl(First(result.outputArr))

\* generateWithReplicate, lines 561-562
ReplicateFailedErrorDropsDetail(result) ==
  "Replicate generation failed: Unknown error"

ReplicateFailedError(result) ==
  "Replicate generation failed: " \o OrElse(result.error, "Unknown error")

\* generateWithCustomStableDiffusion, lines 645-686
CustomExtract(data) ==
  IF Truthy(data.outputStr) THEN RemoteUrl(data.outputStr)
  ELSE IF Len(data.outputArr) > 0
  THEN (IF Truthy(data.outputArr[1]) THEN RemoteUrl(data.outputArr[1])
        ELSE Fail("No image URL found in custom API response"))
  ELSE IF Len(data.images) > 0
  THEN (IF data.images[1] # NotAString
        THEN (IF StartsWith(data.images[1], "data:") THEN DataUrl(data.images[1])
              ELSE DataUrl("data:image/png;base64," \o data.images[1]))
        ELSE Fail("No image URL found in custom API response"))
  ELSE IF Truthy(data.result) THEN RemoteUrl(data.result)
  ELSE IF Truthy(data.url) THEN RemoteUrl(data.url)
  ELSE Fail("No image URL found in custom API response")

\* the part of each adapter between the answer of the backend and the
\* storage step.  For Replicate the answer stands for the submission and
\* the last poll (the polling loop itself is the specification SpecPoll).
AdapterExtract(adapter, resp) ==
  IF adapter = "dalle"
  THEN (IF ~resp.ok THEN Fail("DALL-E API error: " \o resp.error)
        ELSE IF ~Truthy(resp.dataUrl) THEN Fail("No image URL returned from DALL-E API")
        ELSE RemoteUrl(resp.dataUrl))
  ELSE IF adapter = "gpt4o"
  THEN (IF ~resp.ok THEN Fail("DALL-E API Error: " \o resp.error)
        ELSE IF ~Truthy(resp.dataUrl) THEN Fail("No image URL found in DALL-E response")
        ELSE RemoteUrl(resp.dataUrl))
  ELSE IF adapter = "local"
  THEN (IF ~resp.ok THEN Fail("Stable Diffusion API error: " \o resp.error)
        ELSE IF ~Truthy(First(resp.images))
        THEN Fail("No image returned from Stable Diffusion API")
        ELSE DataUrl("data:image/png;base64," \o First(resp.images)))
  ELSE IF adapter = "sdapi"
  THEN (IF resp.status # "success"
        THEN Fail("StableDiffusionAPI.com error: " \o OrElse(resp.error, "Unknown error"))
        ELSE IF ~Truthy(First(resp.outputArr))
        THEN Fail("No image URL returned from StableDiffusionAPI.com")
        ELSE RemoteUrl(First(resp.outputArr)))
  ELSE IF adapter = "replicate"
  THEN (IF ~resp.ok THEN Fail("Replicate API error: " \o resp.error)
        ELSE IF ~Truthy(resp.pollUrl) THEN Fail("Invalid response from Replicate")
        ELSE IF resp.status = "failed" THEN Fail(ReplicateFailedError(resp))
        ELSE ReplicateAfterPoll(resp))
  ELSE IF adapter = "custom"
  THEN (IF ~resp.ok THEN Fail("Custom Stable Diffusion API error: " \o resp.error)
        ELSE CustomExtract(resp))
  ELSE Fail("unreachable")

\* main.ts, 'downloadImage': the allow-list of download hosts
allowedDomains ==
  <<"openai.com", "api.openai.com", "replicate.com", "api.replicate.com",
    "stability.ai", "api.stability.ai", "loremflickr.com", "picsum.photos",
    "placehold.co", "placehold.it", "blob.core.windows.net">>

\* new URL(url).hostname for the URLs of the model (scheme://host/path)
HostnameOf(url) ==
  LET rest == SubSeq(url, IndexOf(url, "://") + 3, Len(url))
  IN  SplitFirst(rest, "/")

isAllowed(url) ==
  \E i \in DOMAIN allowedDomains : Includes(HostnameOf(url), allowedDomains[i])

\* generateWithGPT4o, lines 138-148: the prompt of the image request after
\* the enrichment step ended with `outcome`
EnhancedText == "A detailed, vivid rendering of the reference image with the requested changes"

enhancedPromptOfDropsPrompt(prompt, outcome) ==
  IF outcome = "enhanced" THEN EnhancedText ELSE ""

enhancedPromptOf(prompt, outcome) ==
  IF outcome = "enhanced" THEN EnhancedText ELSE prompt

\* generateImageDescription: the text it resolves to; it never rejects
VisionText == "A tabby cat in the center, soft daylight from the left, watercolor style"

generateImageDescription(prompt, imageUrl, apiKey, outcome) ==
  IF ~Truthy(imageUrl)
  THEN "No image available for analysis. Original prompt was: \"" \o prompt \o "\""
  ELSE IF ~Truthy(apiKey)
  THEN "Error: API key required for detailed image analysis."
  ELSE IF outcome = "loadError"
  THEN "Error loading image for analysis. Using original prompt as fallback."
  ELSE IF outcome = "apiError"
  THEN "Failed to generate detailed image description. Using original prompt: \""
       \o prompt \o "\""
  ELSE VisionText

(***************************************************************************)
(* State.                                                                  *)
(***************************************************************************)
VARIABLES
  settings,      \* the settings the handlers read
  sessions,      \* sessionsAtom: the sessions with their messages
  tasks,         \* the handler invocations, in the order they started
  baseImageDir,  \* imageStorage.baseImageDir, "" while it is null
  files,         \* the paths of the image files on disk
  nextId,        \* the next uuid
  nextFile,      \* the next file name
  budget,        \* the invocations a run may start and may have in flight
  \* the polling loop of generateWithReplicate (specification SpecPoll)
  ppc,           \* where one call of generateWithReplicate stands
  attempt,       \* the loop variable
  polls,         \* the poll requests issued so far
  pending,       \* the polls so far that reported a non-terminal status
  lastPoll,      \* `result`: the body of the last poll
  pollResult,    \* what generateWithReplicate returned
  \* one call of a function that has no state (the specifications of the
  \* composer, the custom adapter and the annotation geometry)
  call,          \* the function called and its arguments
  ret,           \* what the call returned
  \* the annotation canvas (specification SpecCanvas)
  canvas         \* tool, isDrawing, selectedId and annotations of AnnotationCanvas

mainVars == <<settings, sessions, tasks, baseImageDir, files, nextId, nextFile, budget>>
pollVars == <<ppc, attempt, polls, pending, lastPoll, pollResult>>
pureVars == <<call, ret, canvas>>
vars == <<settings, sessions, tasks, baseImageDir, files, nextId, nextFile, budget,
          ppc, attempt, polls, pending, lastPoll, pollResult, call, ret, canvas>>

\* the result of generateImage / refineImage
NoResult ==
  [success |-> FALSE, imageUrl |-> Undefined, error |-> Undefined, fullPrompt |-> Undefined]

Failure(message) ==
  [success |-> FALSE, imageUrl |-> "", error |-> message, fullPrompt |-> Undefined]

Success(ref, fullPrompt) ==
  [success |-> TRUE, imageUrl |-> ref, error |-> Undefined, fullPrompt |-> fullPrompt]

NoInput == [globalFeedback |-> "", annotations |-> <<>>, refinementPrompt |-> ""]

NoFetch == [tag |-> "none", val |-> ""]

\* one invocation of submitImageGenerationMessage, handleRefineImage or
\* handleRerollImage
BlankTask ==
  [kind |-> "", pc |-> "", src |-> BlankMsg, msg |-> BlankMsg,
   inserted |-> BlankMsg, helperId |-> 0,
   input |-> NoInput, prompt |-> "", imageUrl |-> Undefined,
   imageDescription |-> Undefined, uploadPreviousImage |-> FALSE,
   viaRefine |-> FALSE, enrich |-> "none", sent |-> Undefined, fetched |-> NoFetch,
   stored |-> "none", returned |-> FALSE, threw |-> FALSE, thrown |-> Undefined,
   result |-> NoResult]

(***************************************************************************)
(* The inputs of the handlers.                                             *)
(***************************************************************************)
Prompts == {"a cat on a sofa"}

Ann1 ==
  [id |-> "a1", type |-> "rectangle", feedback |-> "add a red hat",
   spatialReference |->
     "in the center of the image (a rectangle from 40% left, 40% top to 60% right, 60% bottom, with dimensions 20% wide by 20% tall)"]

\* what handleFeedbackSubmit hands to onRefineImage
RefineInputs ==
  { [globalFeedback |-> g, annotations |-> a,
     refinementPrompt |-> handleFeedbackSubmitPrompt(g, a)] :
      <<g, a>> \in {<<"make it brighter", <<Ann1>> >>} }

DescribeOutcomes == {"ok", "apiError"}

(***************************************************************************)
(* Init.                                                                   *)
(***************************************************************************)
\* the runs explored: MaxTasks invocations one after the other, or one
\* fewer with up to MaxInFlight of them in flight at once
Budgets ==
  { [tasks |-> MaxTasks, inFlight |-> 1],
    [tasks |-> MaxTasks - 1, inFlight |-> MaxInFlight] }

PollIdle ==
  /\ ppc = "idle" /\ attempt = 0 /\ polls = 0 /\ pending = 0
  /\ lastPoll = BlankResponse /\ pollResult = NoResult

\* no call of a stateless function is under way
NoCall == [fn |-> "none"]

\* the canvas is not open
NoCanvas == [tool |-> "none"]

PureIdle == call = NoCall /\ ret = NoCall /\ canvas = NoCanvas

Init ==
  /\ settings \in SettingsChoices
  /\ sessions = <<[id |-> CurrentSessionId, messages |-> <<>>]>>
  /\ tasks = <<>>
  /\ baseImageDir = ""
  /\ files = {}
  /\ nextId = 1
  /\ nextFile = 1
  /\ budget \in Budgets
  /\ PollIdle
  /\ PureIdle

(***************************************************************************)
(* The handlers up to their first await.                                   *)
(***************************************************************************)
InFlight == {t \in DOMAIN tasks : tasks[t].pc # "done"}

CanStart == Len(tasks) < budget.tasks /\ Cardinality(InFlight) < budget.inFlight

\* ImageMessage shows the Annotate and Reroll buttons of an entry that has
\* an image reference and is not generating
Actionable(m) == m.role = "assistant" /\ Truthy(m.imageUrl) /\ ~m.generating

\* the options object of a generateImage call
CallOf(task, prompt, imageUrl, imageDescription, viaRefine) ==
  [task EXCEPT \* initImageStorage, line 13, runs up to its first await in the
               \* turn of the call
               !.pc = IF baseImageDir # "" THEN "init" ELSE "appdata",
               \* the entry as the handler inserted it, before its update
               !.inserted = task.msg,
               !.prompt = prompt, !.imageUrl = imageUrl,
               !.imageDescription = imageDescription, !.viaRefine = viaRefine,
               \* refineImage, line 846: refinements with GPT-4o upload the image
               !.uploadPreviousImage =
                  viaRefine /\ settings.imageGenerationModel = "gpt-4o"]

\* InputBox.handleSubmit with "/image <prompt>" and
\* submitImageGenerationMessage up to the await of generateImage
StartSubmit(prompt) ==
  /\ CanStart
  /\ LET userMessage == createMessage(nextId, "user", "/image " \o prompt)
         imageMessage == [createMessage(nextId + 1, "assistant", "") EXCEPT
                            !.imageUrl = "placeholder", !.originalPrompt = prompt,
                            !.generating = TRUE]
         s1 == ensureSessionExists(sessions, CurrentSessionId)
         s2 == insertMessage(s1, CurrentSessionId, userMessage)
     IN  /\ sessions' = insertMessage(s2, CurrentSessionId, imageMessage)
         /\ tasks' = Append(tasks,
                CallOf([BlankTask EXCEPT !.kind = "submit", !.msg = imageMessage],
                       prompt, Undefined, Undefined, FALSE))
  /\ nextId' = nextId + 2
  /\ UNCHANGED <<settings, baseImageDir, files, nextFile, budget, pollVars, pureVars>>

\* handleRefineImage up to the await of generateImageDescription
StartRefine(i, input) ==
  /\ CanStart
  /\ i \in DOMAIN MessagesOf(sessions, CurrentSessionId)
  /\ LET message == MessagesOf(sessions, CurrentSessionId)[i]
         loadingTextMessage == createMessage(nextId, "user", "Analyzing image for refinement...")
     IN  /\ Actionable(message)
         /\ sessions' = insertMessage(sessions, CurrentSessionId, loadingTextMessage)
         /\ tasks' = Append(tasks,
                [BlankTask EXCEPT !.kind = "refine", !.pc = "describe", !.src = message,
                                  !.helperId = nextId, !.input = input])
  /\ nextId' = nextId + 1
  /\ UNCHANGED <<settings, baseImageDir, files, nextFile, budget, pollVars, pureVars>>

\* handleRefineImage from the description to the await inside generateImage
Describe(t) ==
  /\ t \in DOMAIN tasks
  /\ tasks[t].pc = "describe"
  /\ \E outcome \in DescribeOutcomes :
       LET task == tasks[t]
           message == task.src
           imageDescription ==
             IF Truthy(message.imageUrl)
             THEN generateImageDescription(OrElse(message.originalPrompt, ""),
                                           message.imageUrl, settings.openaiKey, outcome)
             ELSE OrElse(message.imageDescription,
                         "No image available for analysis. Original prompt was: \""
                         \o message.originalPrompt \o "\"")
           loadingTextMessage ==
             createMessage(task.helperId, "user", "Analyzing image for refinement...")
           descriptionTextMessage ==
             createMessage(nextId, "user", "Generated Detailed Image Analysis")
           refinementTextMessage ==
             createMessage(nextId + 1, "user",
                           "Refining image with prompt:\n" \o task.input.refinementPrompt)
           refinedImageMessage ==
             [createMessage(nextId + 2, "assistant", "") EXCEPT
                !.generating = TRUE, !.imageUrl = "",
                !.refinementPrompt = task.input.refinementPrompt,
                !.originalPrompt = message.originalPrompt,
                !.imageDescription = imageDescription, !.fullPrompt = "",
                !.annotations = <<>>, !.history = RefineHistory(message)]
           s1 == modifyMessage(sessions, CurrentSessionId,
                               [loadingTextMessage EXCEPT
                                  !.id = descriptionTextMessage.id,
                                  !.content = descriptionTextMessage.content])
           s2 == insertMessage(s1, CurrentSessionId, refinementTextMessage)
           originalPrompt == OrElse(message.originalPrompt, "An image")
           composed == refineCompose(originalPrompt, task.input.refinementPrompt,
                                     imageDescription, task.input.annotations)
       IN  /\ ~NeedsVisionDescription(task.input.refinementPrompt, imageDescription,
                                      message.imageUrl, settings.openaiKey)
           /\ sessions' = insertMessage(s2, CurrentSessionId, refinedImageMessage)
           /\ tasks' = [tasks EXCEPT ![t] =
                  CallOf([task EXCEPT !.msg = refinedImageMessage],
                         composed.combinedPrompt, message.imageUrl,
                         composed.imageDescription, TRUE)]
  /\ nextId' = nextId + 3
  /\ UNCHANGED <<settings, baseImageDir, files, nextFile, budget, pollVars, pureVars>>

\* handleRerollImage up to the await inside generateImage
StartReroll(i) ==
  /\ CanStart
  /\ i \in DOMAIN MessagesOf(sessions, CurrentSessionId)
  /\ LET message == MessagesOf(sessions, CurrentSessionId)[i]
         isRefinedImage == Truthy(message.refinementPrompt)
         promptToUse == IF isRefinedImage
                        THEN message.originalPrompt \o " (with refinements)"
                        ELSE message.originalPrompt
         rerollTextMessage ==
           createMessage(nextId, "user", "Rerolling image with prompt: " \o promptToUse)
         rerolledImageMessage ==
           [message EXCEPT !.id = nextId + 1, !.generating = TRUE,
                           !.imageUrl = Undefined, !.isReroll = TRUE,
                           !.history = RerollHistory(message)]
         s1 == insertMessage(sessions, CurrentSessionId, rerollTextMessage)
         originalPrompt == OrElse(message.originalPrompt, "An image")
         enhanced == enhancedRefinementPromptOf(message)
         composed == refineCompose(originalPrompt, enhanced, message.imageDescription,
                                   message.annotations)
         task == [BlankTask EXCEPT !.kind = "reroll", !.src = message,
                                   !.msg = rerolledImageMessage, !.helperId = nextId]
     IN  /\ Actionable(message)
         /\ Truthy(promptToUse)
         /\ isRefinedImage =>
              ~NeedsVisionDescription(enhanced, message.imageDescription,
                                      message.imageUrl, settings.openaiKey)
         /\ sessions' = insertMessage(s1, CurrentSessionId, rerolledImageMessage)
         /\ tasks' = Append(tasks,
                IF isRefinedImage
                THEN CallOf(task, composed.combinedPrompt, message.imageUrl,
                            composed.imageDescription, TRUE)
                ELSE CallOf(task, originalPrompt, Undefined, Undefined, FALSE))
  /\ nextId' = nextId + 2
  /\ UNCHANGED <<settings, baseImageDir, files, nextFile, budget, pollVars, pureVars>>

(***************************************************************************)
(* generateImage, one action per await.                                    *)
(***************************************************************************)
\* generateImage after initImageStorage resolved: the adapter is chosen and
\* runs up to its first request
AfterInit(task) ==
  LET adapter == AdapterOf(settings)
      refused == PreCheck(adapter, settings)
  IN  IF refused # ""
      THEN [task EXCEPT !.pc = "finish", !.returned = TRUE, !.result = Failure(refused)]
      ELSE IF adapter = "gpt4o" /\ task.uploadPreviousImage /\ Truthy(task.imageUrl)
      THEN [task EXCEPT !.pc = "enrich"]
      ELSE [task EXCEPT !.pc = "backend", !.sent = task.prompt,
                        !.enrich = IF adapter = "gpt4o" THEN "skipped" ELSE "none"]

\* generateImage rejects: the exception reaches the handler
Rejected(task, message) ==
  [task EXCEPT !.pc = "finish", !.threw = TRUE, !.thrown = message]

\* `await imageStorage.initImageStorage()` at the head of generateImage when
\* baseImageDir was set at the call: the promise is already resolved
InitStorage(t) ==
  /\ t \in DOMAIN tasks
  /\ tasks[t].pc = "init"
  /\ tasks' = [tasks EXCEPT ![t] = AfterInit(@)]
  /\ UNCHANGED <<settings, sessions, baseImageDir, files, nextId, nextFile, budget,
                 pollVars, pureVars>>

\* initImageStorage, lines 23-24: `await platform.getAppDataDir()` settles;
\* baseImageDir is assigned and 'ensureDirectory' is invoked
GetAppDataDir(t) ==
  /\ t \in DOMAIN tasks
  /\ tasks[t].pc = "appdata"
  /\ \/ /\ baseImageDir' = BaseDirOf(AppDataDir)
        /\ tasks' = [tasks EXCEPT ![t] = [@ EXCEPT !.pc = "ensure"]]
     \/ /\ UNCHANGED baseImageDir
        /\ tasks' = [tasks EXCEPT ![t] = Rejected(@, "getAppDataDir failed")]
  /\ UNCHANGED <<settings, sessions, files, nextId, nextFile, budget, pollVars, pureVars>>

\* initImageStorage, line 28: `await platform.ipc.invoke('ensureDirectory')`
\* settles
EnsureDirectory(t) ==
  /\ t \in DOMAIN tasks
  /\ tasks[t].pc = "ensure"
  /\ \/ tasks' = [tasks EXCEPT ![t] = AfterInit(@)]
     \/ tasks' = [tasks EXCEPT ![t] = Rejected(@, "ensureDirectory failed")]
  /\ UNCHANGED <<settings, sessions, baseImageDir, files, nextId, nextFile, budget,
                 pollVars, pureVars>>

\* generateWithGPT4o, lines 140-148: the enrichment request
Enrich(t) ==
  /\ t \in DOMAIN tasks
  /\ tasks[t].pc = "enrich"
  /\ \E outcome \in {"enhanced", "failed"} :
       tasks' = [tasks EXCEPT ![t] =
                   [@ EXCEPT !.pc = "backend", !.enrich = outcome,
                             !.sent = enhancedPromptOf(tasks[t].prompt, outcome)]]
  /\ UNCHANGED <<settings, sessions, baseImageDir, files, nextId, nextFile, budget, pollVars, pureVars>>

\* the image request of the adapter and what the adapter makes of the answer
Backend(t) ==
  /\ t \in DOMAIN tasks
  /\ tasks[t].pc = "backend"
  /\ \E resp \in Responses(AdapterOf(settings)) :
       LET out == AdapterExtract(AdapterOf(settings), resp)
       IN  tasks' = [tasks EXCEPT ![t] =
                       IF out.tag = "fail"
                       THEN [@ EXCEPT !.pc = "finish", !.returned = TRUE,
                                      !.result = Failure(out.val)]
                       ELSE [@ EXCEPT !.pc = "store", !.fetched = out]]
  /\ UNCHANGED <<settings, sessions, baseImageDir, files, nextId, nextFile, budget, pollVars, pureVars>>

\* what the IPC calls of a save do: "written" (the handler wrote the file
\* and returned true), "notWritten" (the handler caught an error and
\* returned false), "rejected" (an invoke rejected)
IpcOutcomes == {"written", "notWritten", "rejected"}

\* a result without the prompt that was used
FullPromptOfOmitted(task) == Undefined

\* the fullPrompt generateImage (line 734) and refineImage (line 851) put on
\* a successful result: both are the prompt of the options object
FullPromptOf(task) == task.prompt

\* main.ts, 'downloadImage' and 'saveBase64Image': whether the file is on disk
\* after the save.  'downloadImage' refuses hosts that are not on its list.
Wrote(fetched, ipc) ==
  ipc = "written" /\ (fetched.tag = "url" => isAllowed(fetched.val))

\* saveImageFromUrl, lines 92-112: the reference it resolves to; its catch
\* block answers a rejected invoke with a picsum URL
saveImageFromUrl(filePath, ipc, r) ==
  IF ipc = "rejected" THEN PicsumUrl(r) ELSE getFileUrl(filePath)

\* the storage step and the return of the adapter, of generateImage and of
\* refineImage
StoreResult(task, filePath, ipc, r) ==
  IF task.fetched.tag = "url"
  THEN Success(saveImageFromUrl(filePath, ipc, r), FullPromptOf(task))
  \* saveImageFromDataUrl rethrows, the catch block of the adapter answers
  ELSE IF ipc = "rejected" THEN Failure("ipc invoke rejected")
  ELSE Success(getFileUrl(filePath), FullPromptOf(task))

Store(t) ==
  /\ t \in DOMAIN tasks
  /\ tasks[t].pc = "store"
  /\ \E ipc \in IpcOutcomes, r \in 0..MaxRandom :
       LET task == tasks[t]
           filePath == FilePathOf(baseImageDir, CurrentSessionId, nextFile)
       IN  /\ ipc # "rejected" => r = 0
           /\ nextFile' = IF ipc = "rejected" THEN nextFile ELSE nextFile + 1
           /\ files' = IF Wrote(task.fetched, ipc) THEN files \cup {filePath} ELSE files
           /\ tasks' = [tasks EXCEPT ![t] =
                 [@ EXCEPT !.pc = "finish", !.returned = TRUE,
                    !.stored = IF ipc = "rejected" THEN "rejected"
                               ELSE IF Wrote(task.fetched, ipc) THEN "written"
                               ELSE "notWritten",
                    !.result = StoreResult(task, filePath, ipc, r)]]
  /\ UNCHANGED <<settings, sessions, baseImageDir, nextId, budget, pollVars, pureVars>>

(***************************************************************************)
(* The handlers after generateImage / refineImage settled.                 *)
(***************************************************************************)
\* the entry as the handler updates it from a result
Succeeded(task) ==
  LET m1 == [task.msg EXCEPT !.generating = FALSE, !.imageUrl = task.result.imageUrl]
      m2 == IF task.kind = "submit" THEN m1
            ELSE [m1 EXCEPT !.fullPrompt = task.result.fullPrompt]
  IN  IF task.kind = "reroll" /\ ~Truthy(m2.imageDescription)
         /\ Truthy(task.src.imageDescription)
      THEN [m2 EXCEPT !.imageDescription = task.src.imageDescription]
      ELSE m2

Failed(task, message) ==
  [task.msg EXCEPT !.generating = FALSE, !.error = message, !.errorCode = 500]

Finish(t) ==
  /\ t \in DOMAIN tasks
  /\ tasks[t].pc = "finish"
  /\ LET task == tasks[t]
     IN  IF task.threw
         THEN IF task.kind = "submit"
              \* submitImageGenerationMessage, lines 940-947
              THEN /\ sessions' = modifyMessage(sessions, CurrentSessionId,
                                                Failed(task, task.thrown))
                   /\ tasks' = [tasks EXCEPT ![t] =
                                  [@ EXCEPT !.pc = "done", !.msg = Failed(task, task.thrown)]]
                   /\ UNCHANGED nextId
              \* the catch blocks of handleRerollImage and handleRefineImage
              ELSE /\ sessions' = insertMessage(sessions, CurrentSessionId,
                        [createMessage(nextId, "system",
                            (IF task.kind = "reroll" THEN "Error rerolling image: "
                             ELSE "Error refining image: ") \o task.thrown)
                         EXCEPT !.error = task.thrown, !.errorCode = 500])
                   /\ tasks' = [tasks EXCEPT ![t] = [@ EXCEPT !.pc = "done"]]
                   /\ nextId' = nextId + 1
         ELSE LET updated == IF task.result.success THEN Succeeded(task)
                             ELSE Failed(task, task.result.error)
              IN  /\ sessions' = modifyMessage(sessions, CurrentSessionId, updated)
                  /\ tasks' = [tasks EXCEPT ![t] = [@ EXCEPT !.pc = "done", !.msg = updated]]
                  /\ UNCHANGED nextId
  /\ UNCHANGED <<settings, baseImageDir, files, nextFile, budget, pollVars, pureVars>>

(***************************************************************************)
(* The specification of the handlers.                                      *)
(***************************************************************************)
Next ==
  \/ \E prompt \in Prompts : StartSubmit(prompt)
  \/ \E i \in 1..(4 * MaxTasks), input \in RefineInputs : StartRefine(i, input)
  \/ \E i \in 1..(4 * MaxTasks) : StartReroll(i)
  \/ \E t \in 1..MaxTasks : Describe(t)
  \/ \E t \in 1..MaxTasks : InitStorage(t)
  \/ \E t \in 1..MaxTasks : GetAppDataDir(t)
  \/ \E t \in 1..MaxTasks : EnsureDirectory(t)
  \/ \E t \in 1..MaxTasks : Enrich(t)
  \/ \E t \in 1..MaxTasks : Backend(t)
  \/ \E t \in 1..MaxTasks : Store(t)
  \/ \E t \in 1..MaxTasks : Finish(t)

Spec == Init /\ [][Next]_vars

(***************************************************************************)
(* The polling loop of generateWithReplicate, lines 498-595, one action    *)
(* per await.                                                              *)
(***************************************************************************)
maxAttempts == 30

ReplicateSettings == CHOOSE st \in SettingsChoices : AdapterOf(st) = "replicate"

PredictionUrl == "https://api.replicate.com/v1/predictions/p1"

\* the answers to the submission
Submissions ==
  { [BlankResponse EXCEPT !.ok = FALSE, !.error = "server error"],
    BlankResponse,
    [BlankResponse EXCEPT !.pollUrl = PredictionUrl, !.status = "starting"] }

\* the bodies a poll answers with
PollBodies ==
  { [BlankResponse EXCEPT !.pollUrl = PredictionUrl, !.status = st] :
       st \in {"starting", "processing", "canceled", "succeeded", "failed"} }
  \cup
  { [BlankResponse EXCEPT !.pollUrl = PredictionUrl, !.status = "succeeded",
                          !.outputArr = <<ReplicateImageUrl>>],
    [BlankResponse EXCEPT !.pollUrl = PredictionUrl, !.status = "failed",
                          !.error = "NSFW content"] }

InitPoll ==
  /\ settings = ReplicateSettings
  /\ sessions = <<[id |-> CurrentSessionId, messages |-> <<>>]>>
  /\ tasks = <<>>
  \* generateImage initialised the storage before it called the adapter
  /\ baseImageDir = BaseDirOf(AppDataDir)
  /\ files = {}
  /\ nextId = 1
  /\ nextFile = 1
  /\ budget = [tasks |-> 0, inFlight |-> 0]
  /\ ppc = "submit" /\ attempt = 0 /\ polls = 0 /\ pending = 0
  /\ lastPoll = BlankResponse /\ pollResult = NoResult
  /\ PureIdle

\* the catch block of generateWithReplicate, lines 587-594
PollFails(message) ==
  /\ ppc' = "done"
  /\ pollResult' = Failure(message)

\* the condition of the for loop, line 549
LoopGoesOnInclusive(a) == a <= maxAttempts

LoopGoesOn(a) == a < maxAttempts

\* lines 523-545: the submission and the prediction URL
PollSubmit ==
  /\ ppc = "submit"
  /\ \E resp \in Submissions :
       IF PreCheck("replicate", settings) # ""
       THEN PollFails(PreCheck("replicate", settings))
       ELSE IF ~resp.ok THEN PollFails("Replicate API error: " \o resp.error)
       ELSE IF ~Truthy(resp.pollUrl) THEN PollFails("Invalid response from Replicate")
       ELSE /\ ppc' = IF LoopGoesOn(attempt) THEN "poll" ELSE "after"
            /\ UNCHANGED pollResult
  /\ UNCHANGED <<mainVars, pureVars, attempt, polls, pending, lastPoll>>

\* lines 550-563: one poll request and the look at its status
PollRequest ==
  /\ ppc = "poll"
  /\ polls' = polls + 1
  /\ \/ \E body \in PollBodies :
          /\ lastPoll' = body
          /\ IF body.status = "succeeded"
             THEN ppc' = "after" /\ UNCHANGED <<pollResult, pending>>
             ELSE IF body.status = "failed"
             THEN PollFails(ReplicateFailedError(body)) /\ UNCHANGED pending
             ELSE ppc' = "wait" /\ pending' = pending + 1 /\ UNCHANGED pollResult
     \* fetch or pollResponse.json() rejects
     \/ /\ PollFails("Failed to fetch")
        /\ UNCHANGED <<lastPoll, pending>>
  /\ UNCHANGED <<mainVars, pureVars, attempt>>

\* line 566 and the head of the loop: the two seconds pass, attempt++
PollWait ==
  /\ ppc = "wait"
  /\ attempt' = attempt + 1
  /\ ppc' = IF LoopGoesOn(attempt + 1) THEN "poll" ELSE "after"
  /\ UNCHANGED <<mainVars, pureVars, polls, pending, lastPoll, pollResult>>

\* lines 569-577: after the loop
PollAfter ==
  /\ ppc = "after"
  /\ LET out == ReplicateAfterPoll(lastPoll)
     IN  IF out.tag = "fail"
         THEN PollFails(out.val)
         ELSE ppc' = "save" /\ UNCHANGED pollResult
  /\ UNCHANGED <<mainVars, pureVars, attempt, polls, pending, lastPoll>>

\* lines 580-586: saveImageFromUrl and the successful return
PollSave ==
  /\ ppc = "save"
  /\ \E ipc \in IpcOutcomes, r \in 0..MaxRandom :
       LET fetched == RemoteUrl(First(lastPoll.outputArr))
           filePath == FilePathOf(baseImageDir, CurrentSessionId, nextFile)
       IN  /\ ipc # "rejected" => r = 0
           /\ nextFile' = IF ipc = "rejected" THEN nextFile ELSE nextFile + 1
           /\ files' = IF Wrote(fetched, ipc) THEN files \cup {filePath} ELSE files
           /\ pollResult' = Success(saveImageFromUrl(filePath, ipc, r), Undefined)
  /\ ppc' = "done"
  /\ UNCHANGED <<settings, sessions, tasks, baseImageDir, nextId, budget,
                 attempt, polls, pending, lastPoll, pureVars>>

NextPoll == PollSubmit \/ PollRequest \/ PollWait \/ PollAfter \/ PollSave

\* the call does not stay at an await for ever: every request is answered
\* or fails, and every timer fires
Proceeds ==
  /\ ppc # "done"
  /\ ppc' \in {"poll", "wait", "after", "save", "done"}
  /\ ppc' # ppc

SpecPoll == InitPoll /\ [][NextPoll]_vars /\ WF_ppc(Proceeds)

(***************************************************************************)
(* The composer of refineImage, lines 775-839, on its own: one call with   *)
(* texts of any length.                                                    *)
(***************************************************************************)
\* a text of n characters
RECURSIVE TextOfLength(_)
TextOfLength(n) ==
  IF n <= 0 THEN ""
  ELSE IF n % 2 = 0 THEN LET half == TextOfLength(n \div 2) IN half \o half
  ELSE "x" \o TextOfLength(n - 1)

\* the lengths of the texts a user types or the vision model answers with
OriginalPromptLengths == {15, 2000, 3700, 3760, 3900}
FeedbackLengths == {0, 16, 2000, 4200}
DescriptionLengths == {0, 70, 900, 1200, 3900}

Ann2 ==
  [id |-> "a2", type |-> "freehand", feedback |-> "",
   spatialReference |->
     "in the top-left of the image (a freehand drawing within a region from 5% left, 5% top to 25% right, 30% bottom)"]

AnnotationLists == {<<>>, <<Ann1>>, <<Ann2, Ann1>>}

\* what the user types into the global feedback field, a textarea
FeedbackTexts ==
  {TextOfLength(n) : n \in FeedbackLengths} \cup {"make it brighter\n\nkeep the cat"}

\* the arguments handleRefineImage calls refineImage with
RefineCalls ==
  { [fn |-> "refineImage",
     viaReroll |-> FALSE,
     originalPrompt |-> TextOfLength(p),
     globalFeedback |-> g,
     feedbackPrompt |-> handleFeedbackSubmitPrompt(g, a),
     refinementPrompt |-> handleFeedbackSubmitPrompt(g, a),
     imageDescription |-> IF d = 0 THEN Undefined ELSE TextOfLength(d),
     annotations |-> a] :
      p \in OriginalPromptLengths, g \in FeedbackTexts,
      d \in DescriptionLengths, a \in AnnotationLists }

\* the entry a refinement left: handleRefineImage stores the prompt of
\* handleFeedbackSubmit and the description, and no annotations (line 390)
RefinedEntry(p, g, d, a) ==
  [BlankMsg EXCEPT !.originalPrompt = TextOfLength(p),
                   !.refinementPrompt = handleFeedbackSubmitPrompt(g, a),
                   !.imageDescription = IF d = 0 THEN Undefined ELSE TextOfLength(d)]

\* the arguments handleRerollImage calls refineImage with for such an entry
RerollCalls ==
  { [fn |-> "refineImage",
     viaReroll |-> TRUE,
     originalPrompt |-> RefinedEntry(p, g, d, a).originalPrompt,
     globalFeedback |-> g,
     feedbackPrompt |-> RefinedEntry(p, g, d, a).refinementPrompt,
     refinementPrompt |-> enhancedRefinementPromptOf(RefinedEntry(p, g, d, a)),
     imageDescription |-> RefinedEntry(p, g, d, a).imageDescription,
     annotations |-> RefinedEntry(p, g, d, a).annotations] :
      p \in OriginalPromptLengths, g \in FeedbackTexts \ {""},
      d \in DescriptionLengths, a \in AnnotationLists }

ComposeCalls == RefineCalls \cup RerollCalls

\* refineImage, lines 804-808
combinedLengthOf(originalPrompt, refinementPrompt, imageDescription, annotations) ==
  Len(CombinedTemplate(originalPrompt,
        spatialRefinementPromptOf(originalPrompt, refinementPrompt,
                                  imageDescription, annotations)))
  + (IF Truthy(imageDescription) THEN Len(imageDescription) ELSE 0)

InitCompose ==
  /\ settings \in {st \in SettingsChoices : AdapterOf(st) = "dalle" /\ Truthy(st.openaiKey)}
  /\ sessions = <<[id |-> CurrentSessionId, messages |-> <<>>]>>
  /\ tasks = <<>>
  /\ baseImageDir = ""
  /\ files = {}
  /\ nextId = 1
  /\ nextFile = 1
  /\ budget = [tasks |-> 0, inFlight |-> 0]
  /\ PollIdle
  /\ call \in ComposeCalls
  /\ ret = NoCall
  /\ canvas = NoCanvas

\* refineImage up to the call of generateImage (line 842)
RefineImageCompose ==
  /\ call.fn = "refineImage"
  /\ ret = NoCall
  /\ ret' = [fn |-> "refineImage",
             spatialRefinementPrompt |->
               spatialRefinementPromptOf(call.originalPrompt, call.refinementPrompt,
                                         call.imageDescription, call.annotations),
             combinedLength |->
               combinedLengthOf(call.originalPrompt, call.refinementPrompt,
                                call.imageDescription, call.annotations),
             combinedPrompt |->
               refineCompose(call.originalPrompt, call.refinementPrompt,
                             call.imageDescription, call.annotations).combinedPrompt,
             \* options.imageDescription as the call leaves it
             imageDescription |->
               refineCompose(call.originalPrompt, call.refinementPrompt,
                             call.imageDescription, call.annotations).imageDescription,
             again |-> Undefined]
  /\ UNCHANGED <<mainVars, pollVars, call, canvas>>

\* refineImage a second time with the same arguments: the options object
\* holds the description the first call left, the annotations hold the
\* phrases they came with
RefineImageAgain ==
  /\ call.fn = "refineImage"
  /\ ret # NoCall
  /\ ret.again = Undefined
  /\ ret' = [ret EXCEPT !.again =
               refineCompose(call.originalPrompt, call.refinementPrompt,
                             ret.imageDescription, call.annotations).combinedPrompt]
  /\ UNCHANGED <<mainVars, pollVars, call, canvas>>

NextCompose == RefineImageCompose \/ RefineImageAgain

SpecCompose == InitCompose /\ [][NextCompose]_vars

(***************************************************************************)
(* The custom adapter, lines 645-686, on its own: one answer of the        *)
(* backend with any combination of the fields the adapter looks at.        *)
(***************************************************************************)
CustomResultUrl == "https://sd.example.org/result/img.png"
CustomUrlUrl == "https://sd.example.org/url/img.png"
CustomOutputUrl == "https://sd.example.org/output/0.png"
Base64DataUrl == "data:image/png;base64,iVBORw0KGgo="

\* the JSON bodies of the answer
CustomBodies ==
  { [BlankResponse EXCEPT !.outputStr = o, !.outputArr = a, !.images = i,
                          !.result = r, !.url = u] :
      o \in {Undefined, CustomImageUrl},
      a \in {<<>>, <<"">>, <<CustomOutputUrl>>},
      i \in {<<>>, <<NotAString>>, <<Base64Image>>, <<Base64DataUrl>>},
      r \in {Undefined, CustomResultUrl},
      u \in {Undefined, CustomUrlUrl} }

InitCustom ==
  /\ settings \in {st \in SettingsChoices : AdapterOf(st) = "custom"}
  /\ sessions = <<[id |-> CurrentSessionId, messages |-> <<>>]>>
  /\ tasks = <<>>
  /\ baseImageDir = BaseDirOf(AppDataDir)
  /\ files = {}
  /\ nextId = 1
  /\ nextFile = 1
  /\ budget = [tasks |-> 0, inFlight |-> 0]
  /\ PollIdle
  /\ call \in {[fn |-> "generateWithCustomStableDiffusion", data |-> d] : d \in CustomBodies}
  /\ ret = NoCall
  /\ canvas = NoCanvas

\* generateWithCustomStableDiffusion from the parsed answer to the storage
\* step
CustomAdapter ==
  /\ call.fn = "generateWithCustomStableDiffusion"
  /\ ret = NoCall
  /\ ret' = [fn |-> call.fn, out |-> CustomExtract(call.data)]
  /\ UNCHANGED <<mainVars, pollVars, call, canvas>>

NextCustom == CustomAdapter

SpecCustom == InitCustom /\ [][NextCustom]_vars

(***************************************************************************)
(* Annotation geometry (spatialProcessing, AnnotationCanvas).  A           *)
(* normalized coordinate is kept in hundredths: the number 0.33 is 33.     *)
(***************************************************************************)
\* the hundredths of a unit (getPercentagePosition: value * 100)
Scale == 100

Max2(a, b) == IF a >= b THEN a ELSE b
Min2(a, b) == IF a <= b THEN a ELSE b

\* Math.max(0, Math.min(1, v))
Clamp01(v) == Max2(0, Min2(Scale, v))

\* a / b as a normalized coordinate
Ratio(a, b) == (a * Scale) \div b

\* Object.entries(GRID_SECTIONS), in the order of the literal
GRID_SECTIONS ==
  << [name |-> "top-left",      x1 |-> 0,  y1 |-> 0,  x2 |-> 33,  y2 |-> 33],
     [name |-> "top-center",    x1 |-> 33, y1 |-> 0,  x2 |-> 66,  y2 |-> 33],
     [name |-> "top-right",     x1 |-> 66, y1 |-> 0,  x2 |-> 100, y2 |-> 33],
     [name |-> "middle-left",   x1 |-> 0,  y1 |-> 33, x2 |-> 33,  y2 |-> 66],
     [name |-> "center",        x1 |-> 33, y1 |-> 33, x2 |-> 66,  y2 |-> 66],
     [name |-> "middle-right",  x1 |-> 66, y1 |-> 33, x2 |-> 100, y2 |-> 66],
     [name |-> "bottom-left",   x1 |-> 0,  y1 |-> 66, x2 |-> 33,  y2 |-> 100],
     [name |-> "bottom-center", x1 |-> 33, y1 |-> 66, x2 |-> 66,  y2 |-> 100],
     [name |-> "bottom-right",  x1 |-> 66, y1 |-> 66, x2 |-> 100, y2 |-> 100] >>

getPercentagePosition(value) == ToString(value) \o "%"

\* the annotation has no normalizedCoordinates
NoCoordinates == [x1 |-> -1, y1 |-> -1, x2 |-> -1, y2 |-> -1]

\* coordinates: [x, y, width, height]
normalizeRectangleCoordinates(coordinates, imageWidth, imageHeight) ==
  [x1 |-> Ratio(coordinates[1], imageWidth),
   y1 |-> Ratio(coordinates[2], imageHeight),
   x2 |-> Ratio(coordinates[1] + coordinates[3], imageWidth),
   y2 |-> Ratio(coordinates[2] + coordinates[4], imageHeight)]

\* the x values (odd positions) and the y values (even positions) of a
\* list of points
Xs(coordinates) == {coordinates[i] : i \in {j \in DOMAIN coordinates : j % 2 = 1}}
Ys(coordinates) == {coordinates[i] : i \in {j \in DOMAIN coordinates : j % 2 = 0}}

Max(S) == CHOOSE x \in S : \A y \in S : x >= y

normalizeFreehandCoordinates(coordinates, imageWidth, imageHeight) ==
  [x1 |-> Ratio(Min(Xs(coordinates)), imageWidth),
   y1 |-> Ratio(Min(Ys(coordinates)), imageHeight),
   x2 |-> Ratio(Max(Xs(coordinates)), imageWidth),
   y2 |-> Ratio(Max(Ys(coordinates)), imageHeight)]

\* the sections that hold the center of the region, in the order of the loop
SectionsAround(normalizedCoords) ==
  SelectSeq(GRID_SECTIONS,
            LAMBDA section :
              /\ normalizedCoords.x1 + normalizedCoords.x2 >= 2 * section.x1
              /\ normalizedCoords.x1 + normalizedCoords.x2 <= 2 * section.x2
              /\ normalizedCoords.y1 + normalizedCoords.y2 >= 2 * section.y1
              /\ normalizedCoords.y1 + normalizedCoords.y2 <= 2 * section.y2)

getGridSection(normalizedCoords) ==
  IF SectionsAround(normalizedCoords) # <<>>
  THEN SectionsAround(normalizedCoords)[1].name
  ELSE "center"

\* the normalizedCoordinates generateSpatialDescription leaves on the
\* annotation
normalizedAfterDescription(annotation, imageWidth, imageHeight) ==
  IF annotation.normalizedCoordinates # NoCoordinates
  THEN annotation.normalizedCoordinates
  ELSE IF imageWidth = 1 /\ imageHeight = 1 THEN NoCoordinates
  ELSE IF annotation.type = "rectangle"
  THEN normalizeRectangleCoordinates(annotation.coordinates, imageWidth, imageHeight)
  ELSE IF annotation.type \in {"freehand", "shape"}
  THEN normalizeFreehandCoordinates(annotation.coordinates, imageWidth, imageHeight)
  ELSE NoCoordinates

generateSpatialDescription(annotation, imageWidth, imageHeight) ==
  LET coords == normalizedAfterDescription(annotation, imageWidth, imageHeight)
      clampedCoords == [x1 |-> Clamp01(coords.x1), y1 |-> Clamp01(coords.y1),
                        x2 |-> Clamp01(coords.x2), y2 |-> Clamp01(coords.y2)]
      left == getPercentagePosition(clampedCoords.x1)
      top == getPercentagePosition(clampedCoords.y1)
      right == getPercentagePosition(clampedCoords.x2)
      bottom == getPercentagePosition(clampedCoords.y2)
      width == getPercentagePosition(clampedCoords.x2 - clampedCoords.x1)
      height == getPercentagePosition(clampedCoords.y2 - clampedCoords.y1)
  IN  IF coords = NoCoordinates THEN ""
      ELSE "in the " \o getGridSection(clampedCoords) \o " of the image "
           \o (IF annotation.type = "rectangle"
               THEN "(a rectangle from " \o left \o " left, " \o top \o " top to "
                    \o right \o " right, " \o bottom \o " bottom, with dimensions "
                    \o width \o " wide by " \o height \o " tall)"
               ELSE IF annotation.type = "freehand"
               THEN "(a freehand drawing within a region from " \o left \o " left, "
                    \o top \o " top to " \o right \o " right, " \o bottom \o " bottom)"
               ELSE IF annotation.type = "shape"
               THEN "(a shape within a region from " \o left \o " left, " \o top
                    \o " top to " \o right \o " right, " \o bottom \o " bottom)"
               ELSE "")

(***************************************************************************)
(* AnnotationCanvas: the mouse handlers and processAnnotation.  Stage      *)
(* coordinates are whole pixels.                                           *)
(***************************************************************************)
\* annotations on the canvas at one time
MaxAnnotations == 1
\* annotations drawn in one behaviour
MaxDrawn == 2
\* points of one freehand stroke
MaxStrokePoints == 2
\* stage coordinates a resize may reach: -MaxStage .. MaxStage
MaxStage == 400

\* imageSize as updateStageDimensions sets it: the image as it is displayed
\* inside the stage
imageSize == [width |-> 100, height |-> 100, offsetX |-> 10, offsetY |-> 10]

\* the pointer positions on the stage: inside the image, left of it and
\* beyond its lower right corner
StagePoints == {<<0, 40>>, <<40, 80>>, <<80, 40>>, <<130, 130>>}

\* the factors of a resize with the transformer
ScaleFactors == {2}

stageToImageCoords(stageX, stageY) ==
  [x |-> Max2(imageSize.offsetX, Min2(stageX, imageSize.offsetX + imageSize.width)),
   y |-> Max2(imageSize.offsetY, Min2(stageY, imageSize.offsetY + imageSize.height))]

\* the image element of the message list: naturalWidth and naturalHeight
NaturalSize == [width |-> 1024, height |-> 1024]

\* ImageMessage.handleAnnotationsChange: the annotations without a phrase get
\* one, the others keep theirs
handleAnnotationsChange(newAnnotations) ==
  [i \in DOMAIN newAnnotations |->
     IF ~Truthy(newAnnotations[i].spatialReference)
     THEN [newAnnotations[i] EXCEPT
             !.normalizedCoordinates =
                normalizedAfterDescription(newAnnotations[i], NaturalSize.width,
                                           NaturalSize.height),
             !.spatialReference =
                generateSpatialDescription(newAnnotations[i], NaturalSize.width,
                                           NaturalSize.height)]
     ELSE newAnnotations[i]]

\* a processAnnotation that keeps the phrase an annotation already has
processAnnotationKeepsPhrase(annotation) ==
  IF annotation.type \notin {"rectangle", "freehand"} THEN annotation
  ELSE
    LET c == annotation.coordinates
        normalized ==
          [x1 |-> Clamp01(Ratio((IF annotation.type = "rectangle" THEN c[1]
                                 ELSE Min(Xs(c))) - imageSize.offsetX, imageSize.width)),
           y1 |-> Clamp01(Ratio((IF annotation.type = "rectangle" THEN c[2]
                                 ELSE Min(Ys(c))) - imageSize.offsetY, imageSize.height)),
           x2 |-> Clamp01(Ratio((IF annotation.type = "rectangle" THEN c[3]
                                 ELSE Max(Xs(c))) - imageSize.offsetX, imageSize.width)),
           y2 |-> Clamp01(Ratio((IF annotation.type = "rectangle" THEN c[4]
                                 ELSE Max(Ys(c))) - imageSize.offsetY, imageSize.height))]
        withCoordinates == [annotation EXCEPT !.normalizedCoordinates = normalized]
    IN  [withCoordinates EXCEPT
           !.spatialReference =
              IF Truthy(annotation.spatialReference) THEN annotation.spatialReference
              ELSE generateSpatialDescription(withCoordinates, 1, 1)]

\* processAnnotation with the image loaded
processAnnotation(annotation) ==
  IF annotation.type \notin {"rectangle", "freehand"} THEN annotation
  ELSE
    LET minX == IF annotation.type = "rectangle" THEN annotation.coordinates[1]
                ELSE Min(Xs(annotation.coordinates))
        minY == IF annotation.type = "rectangle" THEN annotation.coordinates[2]
                ELSE Min(Ys(annotation.coordinates))
        maxX == IF annotation.type = "rectangle" THEN annotation.coordinates[3]
                ELSE Max(Xs(annotation.coordinates))
        maxY == IF annotation.type = "rectangle" THEN annotation.coordinates[4]
                ELSE Max(Ys(annotation.coordinates))
        normalized ==
          [x1 |-> Clamp01(Ratio(minX - imageSize.offsetX, imageSize.width)),
           y1 |-> Clamp01(Ratio(minY - imageSize.offsetY, imageSize.height)),
           x2 |-> Clamp01(Ratio(maxX - imageSize.offsetX, imageSize.width)),
           y2 |-> Clamp01(Ratio(maxY - imageSize.offsetY, imageSize.height))]
        withCoordinates == [annotation EXCEPT !.normalizedCoordinates = normalized]
    IN  [withCoordinates EXCEPT
           !.spatialReference = generateSpatialDescription(withCoordinates, 1, 1)]

newAnnotation(id, type, coordinates) ==
  [id |-> id, type |-> type, coordinates |-> coordinates, feedback |-> "",
   normalizedCoordinates |-> NoCoordinates, spatialReference |-> ""]

InitCanvas ==
  /\ settings \in {st \in SettingsChoices : AdapterOf(st) = "dalle" /\ Truthy(st.openaiKey)}
  /\ sessions = <<[id |-> CurrentSessionId, messages |-> <<>>]>>
  /\ tasks = <<>>
  /\ baseImageDir = ""
  /\ files = {}
  /\ nextId = 1
  /\ nextFile = 1
  /\ budget = [tasks |-> 0, inFlight |-> 0]
  /\ PollIdle
  /\ call = NoCall
  /\ ret = NoCall
  /\ canvas = [tool |-> "freehand", isDrawing |-> FALSE, selectedId |-> 0,
               annotations |-> <<>>, nextId |-> 1]

CanvasUnchanged == UNCHANGED <<mainVars, pollVars, call, ret>>

handleToolChange(newTool) ==
  /\ canvas.tool # "none"
  /\ canvas' = [canvas EXCEPT !.tool = newTool]
  /\ CanvasUnchanged

\* a press on the empty stage
handleMouseDown(pos) ==
  /\ canvas.tool # "none"
  /\ Len(canvas.annotations) < MaxAnnotations
  /\ canvas.nextId <= MaxDrawn
  /\ LET p == stageToImageCoords(pos[1], pos[2])
     IN  canvas' = [canvas EXCEPT
           !.selectedId = 0,
           !.isDrawing = TRUE,
           !.nextId = @ + 1,
           !.annotations =
              Append(@, IF canvas.tool = "rectangle"
                        THEN newAnnotation(canvas.nextId, "rectangle", <<p.x, p.y, p.x, p.y>>)
                        ELSE newAnnotation(canvas.nextId, "freehand", <<p.x, p.y>>))]
  /\ CanvasUnchanged

handleMouseMove(pos) ==
  /\ canvas.tool # "none"
  /\ canvas.isDrawing
  /\ Len(canvas.annotations) > 0
  /\ LET p == stageToImageCoords(pos[1], pos[2])
         last == Len(canvas.annotations)
         lastAnnotation == canvas.annotations[last]
     IN  /\ canvas.tool = "rectangle" => Len(lastAnnotation.coordinates) >= 2
         /\ canvas.tool = "freehand" =>
              Len(lastAnnotation.coordinates) < 2 * MaxStrokePoints
         /\ canvas' = [canvas EXCEPT !.annotations[last].coordinates =
               IF canvas.tool = "rectangle"
               THEN <<lastAnnotation.coordinates[1], lastAnnotation.coordinates[2], p.x, p.y>>
               ELSE lastAnnotation.coordinates \o <<p.x, p.y>>]
  /\ CanvasUnchanged

handleMouseUp ==
  /\ canvas.tool # "none"
  /\ canvas' = [canvas EXCEPT
        !.isDrawing = FALSE,
        !.annotations = handleAnnotationsChange([i \in DOMAIN @ |-> processAnnotation(@[i])])]
  /\ CanvasUnchanged

\* onClick of a rectangle or a line
SelectAnnotation(i) ==
  /\ canvas.tool # "none"
  /\ i \in DOMAIN canvas.annotations
  /\ canvas' = [canvas EXCEPT !.selectedId = canvas.annotations[i].id]
  /\ CanvasUnchanged

\* the node was dragged to pos; the node of a line reports the same x and y
\* before and after, so that a line keeps its points
handleDragEnd(i, pos) ==
  /\ canvas.tool # "none"
  /\ i \in DOMAIN canvas.annotations
  /\ LET annotation == canvas.annotations[i]
         c == annotation.coordinates
         moved == IF annotation.type = "rectangle"
                  THEN [annotation EXCEPT !.coordinates =
                          <<pos[1], pos[2], pos[1] + (c[3] - c[1]), pos[2] + (c[4] - c[2])>>]
                  ELSE annotation
     IN  /\ annotation.type = "rectangle" => Len(c) >= 4
         /\ canvas' = [canvas EXCEPT !.annotations =
               handleAnnotationsChange([@ EXCEPT ![i] = processAnnotation(moved)])]
  /\ CanvasUnchanged

handleTransformEnd(i, scaleX, scaleY) ==
  /\ canvas.tool # "none"
  /\ i \in DOMAIN canvas.annotations
  /\ canvas.annotations[i].type = "rectangle"
  /\ Len(canvas.annotations[i].coordinates) >= 4
  /\ LET annotation == canvas.annotations[i]
         c == annotation.coordinates
         resized == [annotation EXCEPT !.coordinates =
                       <<c[1], c[2], c[1] + (c[3] - c[1]) * scaleX,
                         c[2] + (c[4] - c[2]) * scaleY>>]
     IN  /\ \A k \in DOMAIN resized.coordinates :
              resized.coordinates[k] \in (0 - MaxStage)..MaxStage
         /\ canvas' = [canvas EXCEPT !.annotations =
               handleAnnotationsChange([@ EXCEPT ![i] = processAnnotation(resized)])]
  /\ CanvasUnchanged

handleDeleteAnnotation ==
  /\ canvas.tool # "none"
  /\ canvas.selectedId # 0
  /\ canvas' = [canvas EXCEPT
        !.annotations =
           handleAnnotationsChange(SelectSeq(@, LAMBDA a : a.id # canvas.selectedId)),
        !.selectedId = 0]
  /\ CanvasUnchanged

\* the texts typed into the feedback field of a region
RegionFeedbacks == {"", "add a red hat"}

\* FeedbackForm.handleAnnotationFeedbackChange, once the drawing is done
handleAnnotationFeedbackChange(i, feedback) ==
  /\ canvas.tool # "none"
  /\ ~canvas.isDrawing
  /\ i \in DOMAIN canvas.annotations
  /\ canvas' = [canvas EXCEPT !.annotations =
        handleAnnotationsChange([@ EXCEPT ![i] = [@ EXCEPT !.feedback = feedback]])]
  /\ CanvasUnchanged

NextCanvas ==
  \/ \E newTool \in {"rectangle", "freehand"} : handleToolChange(newTool)
  \/ \E pos \in StagePoints : handleMouseDown(pos)
  \/ \E pos \in StagePoints : handleMouseMove(pos)
  \/ handleMouseUp
  \/ \E i \in 1..MaxAnnotations : SelectAnnotation(i)
  \/ \E i \in 1..MaxAnnotations, pos \in StagePoints : handleDragEnd(i, pos)
  \/ \E i \in 1..MaxAnnotations, sx \in ScaleFactors, sy \in ScaleFactors :
       handleTransformEnd(i, sx, sy)
  \/ handleDeleteAnnotation
  \/ \E i \in 1..MaxAnnotations, feedback \in RegionFeedbacks :
       handleAnnotationFeedbackChange(i, feedback)

SpecCanvas == InitCanvas /\ [][NextCanvas]_vars

(***************************************************************************)
(* getGridSection on its own: one call with any region inside the image.   *)
(***************************************************************************)
\* the bounds of the regions, in hundredths
RegionBounds == {0, 16, 33, 34, 50, 66, 100}

Regions ==
  { [x1 |-> a, y1 |-> b, x2 |-> c, y2 |-> d] :
      <<a, b, c, d>> \in {q \in RegionBounds \X RegionBounds \X RegionBounds \X RegionBounds :
                            q[1] <= q[3] /\ q[2] <= q[4]} }

InitGrid ==
  /\ settings \in {st \in SettingsChoices : AdapterOf(st) = "dalle" /\ Truthy(st.openaiKey)}
  /\ sessions = <<[id |-> CurrentSessionId, messages |-> <<>>]>>
  /\ tasks = <<>>
  /\ baseImageDir = ""
  /\ files = {}
  /\ nextId = 1
  /\ nextFile = 1
  /\ budget = [tasks |-> 0, inFlight |-> 0]
  /\ PollIdle
  /\ call \in {[fn |-> "getGridSection", normalizedCoords |-> r] : r \in Regions}
  /\ ret = NoCall
  /\ canvas = NoCanvas

GridSectionCall ==
  /\ call.fn = "getGridSection"
  /\ ret = NoCall
  /\ ret' = [fn |-> call.fn, section |-> getGridSection(call.normalizedCoords)]
  /\ UNCHANGED <<mainVars, pollVars, call, canvas>>

NextGrid == GridSectionCall

SpecGrid == InitGrid /\ [][NextGrid]_vars

(***************************************************************************)
(* Properties of the handlers (specification Spec).                        *)
(***************************************************************************)
\* the invocations whose call of generateImage / refineImage has settled
Returned == {t \in DOMAIN tasks : tasks[t].returned}

Successes == {t \in Returned : tasks[t].result.success}

\* the entry of the current session with this id
EntriesWithId(id) ==
  {i \in DOMAIN MessagesOf(sessions, CurrentSessionId) :
      MessagesOf(sessions, CurrentSessionId)[i].id = id}

\* a file reference inside the directory of the session
IsLocalReference(ref) ==
  /\ StartsWith(ref, "file://")
  /\ StartsWith(ref, "file://"
                     \o EncodePath(SessionDirOf(BaseDirOf(AppDataDir), CurrentSessionId))
                     \o "/")

\* C1: a result with success=true carries a file reference inside the
\* directory of the session, never a remote http(s) URL, whatever the
\* adapter and the outcome of the storage step.
SuccessIsLocalReference ==
  \A t \in Successes :
     /\ IsLocalReference(tasks[t].result.imageUrl)
     /\ ~StartsWith(tasks[t].result.imageUrl, "http://")
     /\ ~StartsWith(tasks[t].result.imageUrl, "https://")

\* C2: when persisting the image fails the result is success=false, and a
\* reference returned with success=true addresses a file that was written.
PersistFailureIsFailure ==
  \A t \in Returned :
     /\ tasks[t].stored \in {"notWritten", "rejected"} => ~tasks[t].result.success
     /\ tasks[t].result.success =>
           \E f \in files : getFileUrl(f) = tasks[t].result.imageUrl

\* C3: generateImage and refineImage never throw or reject; a failure to
\* initialise the image storage is returned as success=false with an error.
NeverRejects ==
  \A t \in DOMAIN tasks :
     /\ ~tasks[t].threw
     /\ tasks[t].pc \in {"finish", "done"} =>
           /\ tasks[t].returned
           /\ ~tasks[t].result.success => Truthy(tasks[t].result.error)

\* C4: once the handler invocation that inserted a generating entry has
\* finished, under every outcome of the generation call, a thrown exception
\* included, the entry has generating=false and an image reference or an
\* error message.
GeneratingEntryIsSettled ==
  \A t \in DOMAIN tasks :
     tasks[t].pc = "done" =>
        \A i \in EntriesWithId(tasks[t].msg.id) :
           LET entry == MessagesOf(sessions, CurrentSessionId)[i]
           IN  /\ ~entry.generating
               /\ Truthy(entry.imageUrl) \/ Truthy(entry.error)

\* the chain of an entry, [] when it has none
HistoryOf(m) == IF m.history = NoHistory THEN <<>> ELSE m.history

Rerolls == {t \in DOMAIN tasks : tasks[t].kind = "reroll"}

\* C5: rerolling an entry with history H and artifact a inserts one new
\* entry with a fresh id whose history is H followed by a; the rerolled
\* entry stays as it was while the reroll is in flight and after it ended.
RerollExtendsHistoryAndKeepsSource ==
  \A t \in Rerolls :
     LET src == tasks[t].src
         msgs == MessagesOf(sessions, CurrentSessionId)
     IN  /\ Cardinality(EntriesWithId(src.id)) = 1
         /\ \A i \in EntriesWithId(src.id) : msgs[i] = src
         /\ tasks[t].msg.id # src.id
         /\ Cardinality(EntriesWithId(tasks[t].msg.id)) = 1
         /\ \A i \in EntriesWithId(tasks[t].msg.id) :
               msgs[i].history = HistoryOf(src) \o <<src.imageUrl>>

\* a reroll of an entry with a non-empty history has succeeded
RerollOfChainedEntrySucceeded ==
  \E t \in Rerolls :
     /\ tasks[t].pc = "done"
     /\ tasks[t].result.success
     /\ Len(HistoryOf(tasks[t].src)) > 0

\* the rerolls of an entry B that a refinement of an entry A produced, with
\* the invocation u that produced B
RerollsOfRefinements ==
  {<<t, u>> \in Rerolls \X DOMAIN tasks :
      tasks[u].kind = "refine" /\ tasks[u].msg.id = tasks[t].src.id}

\* C6: when B, a refinement of A, is rerolled into C, the instruction
\* dispatched for C equals the instruction composed and stored for B, it is
\* built from the refinement instruction and the description stored on B,
\* and the chain of C is the chain of B followed by B, which ends A, B.
RerollOfRefinementRepeatsInstruction ==
  \A <<t, u>> \in RerollsOfRefinements :
     LET B == tasks[t].src
         A == tasks[u].src
         C == tasks[t].msg
     IN  /\ tasks[t].prompt = B.fullPrompt
         /\ tasks[t].prompt = tasks[u].prompt
         /\ Includes(tasks[t].prompt, B.refinementPrompt)
         /\ tasks[t].imageDescription = B.imageDescription
         /\ C.history = HistoryOf(A) \o <<A.imageUrl, B.imageUrl>>

\* C7: no two different successful generations have produced the same
\* artifact reference, whatever the outcome of the storage step.
SuccessesHaveDistinctReferences ==
  \A t1, t2 \in Successes :
     t1 # t2 => tasks[t1].result.imageUrl # tasks[t2].result.imageUrl

\* the results of a GPT-4o request that is sent with the prompt of the call
ErrorsOfPlainRequest ==
  {AdapterExtract("gpt4o", resp).val :
      resp \in {r \in Responses("gpt4o") : AdapterExtract("gpt4o", r).tag = "fail"}}

EnrichmentFailed == {t \in DOMAIN tasks : tasks[t].enrich = "failed"}

\* C10: a failure of the enrichment step of the GPT-4o adapter does not end
\* the request: the image request is sent with the prompt of the call
\* unmodified, and the result is a result of the request without enrichment.
EnrichmentFailureKeepsPrompt ==
  \A t \in EnrichmentFailed :
     /\ tasks[t].sent = tasks[t].prompt
     /\ ~tasks[t].threw
     /\ tasks[t].pc \in {"backend", "store", "finish", "done"}
     /\ tasks[t].pc = "backend" => ~tasks[t].returned
     /\ tasks[t].returned =>
           IF tasks[t].result.success
           THEN tasks[t].result.fullPrompt = tasks[t].prompt
           ELSE tasks[t].result.error \in ErrorsOfPlainRequest

\* a request whose enrichment failed has returned an image
EnrichmentFailedAndSucceeded ==
  \E t \in EnrichmentFailed : tasks[t].returned /\ tasks[t].result.success

\* C18: every result generateImage or refineImage returns has one of two
\* shapes: success with a non-empty imageUrl, the prompt used and no error,
\* or failure with an empty imageUrl and a non-empty error message; none
\* has both an image reference and an error.
ResultIsSuccessOrFailure ==
  \A t \in Returned :
    LET result == tasks[t].result
    IN  IF result.success
        THEN /\ Truthy(result.imageUrl)
             /\ Truthy(result.fullPrompt)
             /\ result.error = Undefined
        ELSE /\ result.imageUrl = ""
             /\ Truthy(result.error)

\* a refinement returned a success after a generation had returned a failure
SuccessAfterFailureReturned ==
  \E t, u \in Returned :
    /\ ~tasks[t].result.success
    /\ tasks[u].result.success /\ tasks[u].viaRefine

\* the refinements whose vision description failed: the entry carries the
\* text generateImageDescription answers a failed request with
DescriptionFailed ==
  {t \in DOMAIN tasks :
      /\ tasks[t].kind = "refine"
      /\ tasks[t].msg.imageDescription # Undefined
      /\ StartsWith(tasks[t].msg.imageDescription,
                    "Failed to generate detailed image description")}

\* the invocations whose storage step failed
StorageFailed == {t \in DOMAIN tasks : tasks[t].stored \in {"rejected", "notWritten"}}

\* C19: the failure of the prompt enrichment is the only failure recovered
\* silently: when the vision description or the storage step fails, the
\* pipeline does not go on with a substitute value as if the step had
\* succeeded, and the caller gets a failed result or a visible error.
OnlyEnrichmentFailureIsSilent ==
  /\ \A t \in DescriptionFailed : tasks[t].pc \notin {"init", "appdata", "ensure", "enrich", "backend", "store"}
  /\ \A t \in DescriptionFailed \cup StorageFailed :
        tasks[t].returned => ~tasks[t].result.success

\* the invocations that issued the enrichment request
Enriched == {t \in DOMAIN tasks : tasks[t].enrich \in {"enhanced", "failed"}}

\* C20: the enrichment request is issued only when the option "upload
\* previous image" is on and a previous image exists; with the option off
\* there is none on any path, refinement and reroll with GPT-4o included.
EnrichmentOnlyWithUploadOption ==
  \A t \in Enriched : settings.uploadPreviousImage /\ Truthy(tasks[t].imageUrl)

(***************************************************************************)
(* Properties of the polling loop (specification SpecPoll).                *)
(***************************************************************************)
TimeoutFailure == Failure("Timed out waiting for Replicate to generate image")

\* C8: the Replicate adapter ends, it issues at most 30 poll requests, and
\* when none of the 30 polls reported succeeded or failed the result is the
\* timeout failure, never success=true.
PollingIsBounded ==
  /\ [](polls <= maxAttempts)
  /\ [](ppc = "done" /\ pending = maxAttempts => pollResult = TimeoutFailure)
  /\ <>(ppc = "done")

\* every one of the 30 polls reported a non-terminal status and the call
\* has returned
AllPollsPending ==
  ppc = "done" /\ pending = maxAttempts /\ polls = maxAttempts

\* C9: when the job reports a non-terminal status for k polls and then
\* succeeded with an output, poll k+1 is the last poll and the result is
\* success=true; when a poll reports failed it is the last poll and the
\* result is success=false with the error of the provider.
PollingStopsAtTerminalStatus ==
  /\ lastPoll.status \in {"succeeded", "failed"} =>
        /\ polls = pending + 1
        /\ pending <= maxAttempts - 1
        /\ ppc \in {"after", "save", "done"}
  /\ ppc = "done" /\ lastPoll.status = "succeeded" /\ Truthy(First(lastPoll.outputArr)) =>
        pollResult.success
  /\ lastPoll.status = "failed" =>
        /\ ppc = "done"
        /\ pollResult =
             Failure("Replicate generation failed: "
                     \o (IF Truthy(lastPoll.error) THEN lastPoll.error
                         ELSE "Unknown error"))

\* the last of the 30 polls reported succeeded with an output after 29
\* non-terminal polls, and the call returned success=true
SucceededOnLastPoll ==
  /\ ppc = "done" /\ pollResult.success
  /\ pending = maxAttempts - 1 /\ polls = maxAttempts

(***************************************************************************)
(* Properties of the composer (specification SpecCompose).                 *)
(***************************************************************************)
\* the limit of the reference backend (the comment at line 810)
ProviderLimit == 4000

Composed == call.fn = "refineImage" /\ ret # NoCall

RefinementMarker == "... [refinement truncated to fit DALL-E character limit]"

\* C11: for all original prompts, descriptions, feedback texts and
\* annotations, the prompt refineImage hands to generateImage has at most
\* 4000 characters.
ComposedPromptWithinProviderLimit ==
  Composed => Len(ret.combinedPrompt) <= ProviderLimit

\* C12: when the naive composition of original prompt, description and
\* feedback exceeds the budget of 3800 characters, the composed prompt has
\* at most 3800 characters, contains the original prompt verbatim and
\* carries a truncation marker where the text was cut.
TruncatedPromptFitsBudget ==
  (Composed /\ ret.combinedLength > PromptBudget) =>
     /\ Len(ret.combinedPrompt) <= PromptBudget
     /\ Includes(ret.combinedPrompt, "\"" \o call.originalPrompt \o "\"")
     /\ Includes(ret.combinedPrompt, "truncated to fit")

\* the number of places where p occurs in s
Occurrences(s, p) ==
  Cardinality({i \in 1..(Len(s) - Len(p) + 1) : SubSeq(s, i, i + Len(p) - 1) = p})

\* the text of the section of a prompt that starts with the line `header`,
\* up to the next section
SectionOf(prompt, header) ==
  LET i == IndexOf(prompt, header \o "\n")
  IN  IF i = 0 THEN ""
      ELSE SplitFirst(SubSeq(prompt, i + Len(header) + 1, Len(prompt)), "\n\n## ")

NotTruncated == ret.combinedLength <= PromptBudget

\* C16: the region section of the refinement prompt that is dispatched
\* holds exactly one line for each annotation with feedback and no line for
\* an annotation whose feedback is empty.
RegionSectionOmitsEmptyFeedback ==
  (Composed /\ NotTruncated) =>
     \A k \in DOMAIN call.annotations :
        Occurrences(SectionOf(ret.combinedPrompt, "## REGION CHANGES"),
                    call.annotations[k].spatialReference)
          = IF Truthy(call.annotations[k].feedback) THEN 1 ELSE 0

\* C17: the global-feedback section of the composed refinement prompt holds
\* exactly the global feedback the user entered, unchanged and complete; it
\* is absent when the user entered none; no per-region line appears in it.
GlobalSectionIsGlobalFeedback ==
  (Composed /\ NotTruncated /\ Len(call.annotations) > 0) =>
     /\ SectionOf(ret.combinedPrompt, "## GLOBAL CHANGES") = call.globalFeedback
     /\ \A k \in DOMAIN call.annotations :
           ~Includes(SectionOf(ret.combinedPrompt, "## GLOBAL CHANGES"),
                     call.annotations[k].spatialReference)

(***************************************************************************)
(* Properties of the custom adapter (specification SpecCustom).            *)
(***************************************************************************)
CustomAnswered == call.fn = "generateWithCustomStableDiffusion" /\ ret # NoCall

\* the usable image values of an answer, in the order output (string),
\* output (array), images, result, url
UsableValues(data) ==
  (IF Truthy(data.outputStr) THEN <<RemoteUrl(data.outputStr)>> ELSE <<>>)
  \o (IF Truthy(First(data.outputArr)) THEN <<RemoteUrl(data.outputArr[1])>> ELSE <<>>)
  \o (IF Truthy(First(data.images)) /\ First(data.images) # NotAString
      THEN <<DataUrl(IF StartsWith(data.images[1], "data:") THEN data.images[1]
                     ELSE "data:image/png;base64," \o data.images[1])>>
      ELSE <<>>)
  \o (IF Truthy(data.result) THEN <<RemoteUrl(data.result)>> ELSE <<>>)
  \o (IF Truthy(data.url) THEN <<RemoteUrl(data.url)>> ELSE <<>>)

\* C13: the custom adapter tries the shapes output (string), output
\* (array), images, result, url in this order and uses the first that
\* matches; it fails only when no field holds a usable image value, and an
\* answer {images: [base64]} is saved as an inline image, not downloaded.
CustomAdapterUsesFirstUsableShape ==
  CustomAnswered =>
    LET usable == UsableValues(call.data)
    IN  /\ usable # <<>> => ret.out = usable[1]
        /\ usable = <<>> => ret.out.tag = "fail"

(***************************************************************************)
(* Properties of getGridSection (specification SpecGrid).                  *)
(***************************************************************************)
GridAnswered == call.fn = "getGridSection" /\ ret # NoCall

\* the cells of the grid that contain the center of the region
CellsOfCentroid(region) ==
  {i \in DOMAIN GRID_SECTIONS :
      /\ 2 * GRID_SECTIONS[i].x1 <= region.x1 + region.x2
      /\ region.x1 + region.x2 <= 2 * GRID_SECTIONS[i].x2
      /\ 2 * GRID_SECTIONS[i].y1 <= region.y1 + region.y2
      /\ region.y1 + region.y2 <= 2 * GRID_SECTIONS[i].y2}

\* C15: for every region with bounds in [0,1], getGridSection returns the
\* name of the grid cell that contains the centroid of the region, and
\* center when the centroid lies on a boundary shared by two or more cells.
GridSectionOfCentroidTiesToCenter ==
  GridAnswered =>
    LET cells == CellsOfCentroid(call.normalizedCoords)
    IN  /\ Cardinality(cells) = 1 =>
             \A i \in cells : ret.section = GRID_SECTIONS[i].name
        /\ Cardinality(cells) > 1 => ret.section = "center"

(***************************************************************************)
(* Properties of the annotation canvas (specification SpecCanvas).         *)
(***************************************************************************)
\* the annotations that carry normalizedCoordinates
Normalized ==
  {i \in DOMAIN canvas.annotations :
      canvas.annotations[i].normalizedCoordinates # NoCoordinates}

InUnitRange(nc) ==
  /\ nc.x1 \in 0..Scale /\ nc.y1 \in 0..Scale
  /\ nc.x2 \in 0..Scale /\ nc.y2 \in 0..Scale

Ordered(nc) == nc.x1 <= nc.x2 /\ nc.y1 <= nc.y2

\* the bounds of a rectangle from the min and max of its two corners
CornerBounds(c) ==
  [x1 |-> Clamp01(Ratio(Min2(c[1], c[3]) - imageSize.offsetX, imageSize.width)),
   y1 |-> Clamp01(Ratio(Min2(c[2], c[4]) - imageSize.offsetY, imageSize.height)),
   x2 |-> Clamp01(Ratio(Max2(c[1], c[3]) - imageSize.offsetX, imageSize.width)),
   y2 |-> Clamp01(Ratio(Max2(c[2], c[4]) - imageSize.offsetY, imageSize.height))]

\* C14: every normalizedCoordinates value stored on an annotation has its
\* four bounds in [0,1] with x1 <= x2 and y1 <= y2, whatever the direction
\* a rectangle was drawn in, for strokes and for points outside the image;
\* the bounds of a rectangle are the min and max of its two corners.
NormalizedCoordinatesAreOrderedUnitBounds ==
  \A i \in Normalized :
    LET annotation == canvas.annotations[i]
    IN  /\ InUnitRange(annotation.normalizedCoordinates)
        /\ Ordered(annotation.normalizedCoordinates)
        /\ (annotation.type = "rectangle" /\ ~canvas.isDrawing) =>
              annotation.normalizedCoordinates = CornerBounds(annotation.coordinates)

(***************************************************************************)
(* Concurrent generations (specification Spec).                            *)
(***************************************************************************)
Entries == MessagesOf(sessions, CurrentSessionId)

\* what the storage step can answer for a fetched remote URL and for
\* fetched inline data, whatever the file name and the outcome of the IPC
\* calls (the prompt of the result is the one of the invocation)
StoredAlone ==
  [tag \in {"url", "data"} |->
     { StoreResult([BlankTask EXCEPT !.fetched = [tag |-> tag, val |-> ""]],
                   FilePathOf(BaseDirOf(AppDataDir), CurrentSessionId, n), ipc, r) :
         n \in 1..MaxTasks, ipc \in IpcOutcomes, r \in 0..MaxRandom }]

\* the results generateImage can return for the options of an invocation
\* that runs with no other invocation in flight
ResultsAlone(task) ==
  LET adapter == AdapterOf(settings)
      refused == PreCheck(adapter, settings)
  IN  IF refused # "" THEN {Failure(refused)}
      ELSE UNION
             { LET out == AdapterExtract(adapter, resp)
               IN  IF out.tag = "fail" THEN {Failure(out.val)}
                   ELSE { IF res.success THEN Success(res.imageUrl, FullPromptOf(task))
                          ELSE res : res \in StoredAlone[out.tag] }
               : resp \in Responses(adapter) }

\* the entries such an invocation can leave: updated from a result, updated
\* from an exception by submitImageGenerationMessage, left as inserted by
\* the catch blocks of the other two handlers
FinalsAlone(task) ==
  LET started == [task EXCEPT !.msg = task.inserted]
  IN  { IF res.success THEN Succeeded([started EXCEPT !.result = res])
        ELSE Failed(started, res.error) : res \in ResultsAlone(task) }
      \cup (IF task.kind = "submit"
            THEN {Failed(started, m) : m \in {"getAppDataDir failed", "ensureDirectory failed"}}
            ELSE {task.inserted})

\* the invocation t settles in this step
Settles(t) == t \in DOMAIN tasks /\ tasks[t].pc = "finish" /\ tasks'[t].pc = "done"

\* C21: with generations for different entries in flight at once, under
\* every interleaving of their steps each generation updates only its own
\* entry, and each entry ends as it would have ended had its generation run
\* alone (image reference or error, history, prompts).
ConcurrentGenerationsAreIndependent ==
  /\ [](\A t \in DOMAIN tasks :
          tasks[t].pc = "done" =>
             /\ Cardinality(EntriesWithId(tasks[t].msg.id)) = 1
             /\ \A i \in EntriesWithId(tasks[t].msg.id) :
                   Entries[i] \in FinalsAlone(tasks[t]))
  /\ [][\A i \in DOMAIN Entries :
           \/ i \in DOMAIN Entries' /\ Entries'[i] = Entries[i]
           \/ \E t \in DOMAIN tasks : Settles(t) /\ Entries[i].id = tasks[t].inserted.id]_vars

\* two generations overlapped and both succeeded: the one that started
\* second stored its image first
OverlappingGenerationsSucceeded ==
  /\ Len(tasks) = 2
  /\ \A t \in DOMAIN tasks : tasks[t].pc = "done" /\ tasks[t].result.success
  /\ tasks[1].result.imageUrl = getFileUrl(FilePathOf(baseImageDir, CurrentSessionId, 2))
  /\ tasks[2].result.imageUrl = getFileUrl(FilePathOf(baseImageDir, CurrentSessionId, 1))

(***************************************************************************)
(* The artifact store on its own (imageStorage.ts and the file handlers of *)
(* main.ts): stores, deletes and listings, one after the other.            *)
(***************************************************************************)
\* the operations of one run
MaxOps == 4
\* the file names of one run
MaxFiles == 3

SessionIds == {"s1", "s2"}

\* the paths the store can write and the references it returns for them
StorePaths ==
  {FilePathOf(BaseDirOf(AppDataDir), sid, n) : sid \in SessionIds, n \in 1..(MaxFiles + 1)}

ReferenceOf == [p \in StorePaths |-> getFileUrl(p)]

\* a reference no store ever returned
NeverStored == "file:///tmp/never-stored.png"

\* what deleteImage is called with: a reference, the path of a file, a
\* reference that never existed
DeleteTargets == StorePaths \cup {ReferenceOf[p] : p \in StorePaths} \cup {NeverStored}

\* main.ts, 'deleteFile' without its try block: the error of unlink leaves
\* the handler
deleteFileUncaught(filePath, fs) ==
  [files |-> fs \ {filePath}, value |-> filePath \in fs, threw |-> filePath \notin fs]

\* main.ts, ipcMain.handle('deleteFile'): unlink, true; false when unlink
\* failed
deleteFile(filePath, fs) ==
  [files |-> fs \ {filePath}, value |-> filePath \in fs, threw |-> FALSE]

\* deleteImage: the local path handed to 'deleteFile'
LocalPathOf(filePath) ==
  IF StartsWith(filePath, "file://") THEN SubSeq(filePath, 8, Len(filePath))
  ELSE filePath

\* deleteImage: the files afterwards and whether the call raised; a rejected
\* invoke is rethrown by the catch block
deleteImage(filePath, fs, ipc) ==
  IF ipc = "rejected" THEN [files |-> fs, raised |-> TRUE]
  ELSE LET answer == deleteFile(LocalPathOf(filePath), fs)
       IN  [files |-> answer.files, raised |-> answer.threw]

\* the pattern listSessionImages hands to 'listFiles'
ListPattern == "*.{jpg,jpeg,png,gif}"

\* pattern.replace(/\*/g, '.*').replace(/\?/g, '.')
RECURSIVE PatternSource(_, _)
PatternSource(pattern, i) ==
  IF i > Len(pattern) THEN ""
  ELSE (IF SubSeq(pattern, i, i) = "*" THEN ".*"
        ELSE IF SubSeq(pattern, i, i) = "?" THEN "."
        ELSE SubSeq(pattern, i, i))
       \o PatternSource(pattern, i + 1)

\* new RegExp(source).test(file) for a source that is ".*." followed by
\* text without metacharacters other than braces: the braces and the text
\* between them form no quantifier and match themselves, the second dot
\* matches one character, the match may start anywhere
RegExpTest(source, file) ==
  /\ StartsWith(source, ".*.")
  /\ LET literal == SubSeq(source, 4, Len(source))
     IN  \E i \in 2..Len(file) :
            /\ i + Len(literal) - 1 <= Len(file)
            /\ SubSeq(file, i, i + Len(literal) - 1) = literal

\* the name of a file of a directory
BaseName(dirPath, filePath) == SubSeq(filePath, Len(dirPath) + 2, Len(filePath))

\* main.ts, ipcMain.handle('listFiles'): the full paths of the files of the
\* directory whose names pass the pattern
listFiles(dirPath, pattern, fs) ==
  {p \in fs : /\ StartsWith(p, dirPath \o "/")
              /\ RegExpTest(PatternSource(pattern, 1), BaseName(dirPath, p))}

\* listSessionImages: the references of the listed files, nothing when a
\* call of the try block rejected
listSessionImages(sessionId, fs, ipc) ==
  IF ipc = "rejected" THEN {}
  ELSE {getFileUrl(file) :
          file \in listFiles(SessionDirOf(BaseDirOf(AppDataDir), sessionId), ListPattern, fs)}

InitArtifacts ==
  /\ settings \in {st \in SettingsChoices : AdapterOf(st) = "custom"}
  /\ sessions = <<[id |-> CurrentSessionId, messages |-> <<>>]>>
  /\ tasks = <<>>
  /\ baseImageDir = ""
  /\ files = {}
  /\ nextId = 1
  /\ nextFile = 1
  /\ budget = [tasks |-> 0, inFlight |-> 0]
  /\ PollIdle
  /\ call = [fn |-> "none", seq |-> 0]
  /\ ret = NoCall
  /\ canvas = NoCanvas

\* saveImageFromUrl for a session, with getSessionDirectory and
\* initImageStorage
StoreArtifact(sessionId, ipc) ==
  /\ call.seq < MaxOps
  /\ nextFile <= MaxFiles
  /\ LET filePath == FilePathOf(BaseDirOf(AppDataDir), sessionId, nextFile)
     IN  /\ call' = [fn |-> "saveImageFromUrl", seq |-> call.seq + 1,
                     sessionId |-> sessionId]
         /\ files' = IF ipc = "written" THEN files \cup {filePath} ELSE files
         /\ ret' = [fn |-> "saveImageFromUrl", written |-> ipc = "written",
                    out |-> IF ipc = "rejected" THEN saveImageFromUrl(filePath, ipc, 0)
                            ELSE ReferenceOf[filePath]]
  /\ baseImageDir' = BaseDirOf(AppDataDir)
  /\ nextFile' = nextFile + 1
  /\ UNCHANGED <<settings, sessions, tasks, nextId, budget, pollVars, canvas>>

\* the delete that came just before, if the operation before was one
LastDelete ==
  IF call.fn = "deleteImage"
  THEN [filePath |-> call.filePath, raised |-> ret.raised, removed |-> ret.removed]
  ELSE [filePath |-> "", raised |-> FALSE, removed |-> FALSE]

DeleteArtifact(filePath, ipc) ==
  /\ call.seq < MaxOps
  /\ call' = [fn |-> "deleteImage", seq |-> call.seq + 1, filePath |-> filePath,
              ipc |-> ipc, after |-> LastDelete]
  /\ files' = deleteImage(filePath, files, ipc).files
  /\ ret' = [fn |-> "deleteImage", raised |-> deleteImage(filePath, files, ipc).raised,
             removed |-> files' # files]
  /\ UNCHANGED <<settings, sessions, tasks, baseImageDir, nextId, nextFile, budget,
                 pollVars, canvas>>

ListArtifacts(sessionId, ipc) ==
  /\ call.seq < MaxOps
  /\ call' = [fn |-> "listSessionImages", seq |-> call.seq + 1, sessionId |-> sessionId,
              ipc |-> ipc]
  /\ ret' = [fn |-> "listSessionImages", out |-> listSessionImages(sessionId, files, ipc)]
  /\ baseImageDir' = BaseDirOf(AppDataDir)
  /\ UNCHANGED <<settings, sessions, tasks, files, nextId, nextFile, budget,
                 pollVars, canvas>>

NextArtifacts ==
  \/ \E sid \in SessionIds, ipc \in IpcOutcomes : StoreArtifact(sid, ipc)
  \/ \E target \in DeleteTargets, ipc \in {"answered", "rejected"} : DeleteArtifact(target, ipc)
  \/ \E sid \in SessionIds, ipc \in {"answered", "rejected"} : ListArtifacts(sid, ipc)

SpecArtifacts == InitArtifacts /\ [][NextArtifacts]_vars

(***************************************************************************)
(* Properties of the artifact store (specification SpecArtifacts).         *)
(***************************************************************************)
\* this step is a call of deleteImage
Deletes == call'.seq # call.seq /\ call'.fn = "deleteImage"

\* the delete of this step repeats the delete before it, which completed
RepeatsDelete ==
  /\ call.fn = "deleteImage"
  /\ ~ret.raised
  /\ call'.filePath = call.filePath

\* the delete of this step names no artifact of the store
NamesNoArtifact == ~\E p \in files : call'.filePath \in {p, ReferenceOf[p]}

\* C22: deleteImage is idempotent: deleting a reference a second time, or a
\* reference that never existed, completes without raising an error and
\* leaves the stored artifacts as they were after the first delete.
DeleteTwiceOrAbsentNeverRaises ==
  [][(Deletes /\ (RepeatsDelete \/ NamesNoArtifact)) =>
        (~ret'.raised /\ files' = files)]_vars

\* C22, amended: a second delete and a delete of a reference that never
\* existed leave the stored artifacts as they were, and they raise exactly
\* when the 'deleteFile' invoke itself rejected, never because the file is
\* absent.
DeleteOfAbsentRaisesOnlyOnRejectedInvoke ==
  [][(Deletes /\ (RepeatsDelete \/ NamesNoArtifact)) =>
        ((ret'.raised <=> call'.ipc = "rejected") /\ files' = files)]_vars

\* a file was deleted, and deleted again without an error
DeletedTwice ==
  /\ call.fn = "deleteImage"
  /\ call.ipc = "answered"
  /\ call.after.filePath = call.filePath
  /\ call.after.removed
  /\ ~ret.raised
  /\ ~ret.removed

\* the references of the artifacts on disk for a session
StoredReferences(sessionId) ==
  {ReferenceOf[p] : p \in {q \in files :
      StartsWith(q, SessionDirOf(BaseDirOf(AppDataDir), sessionId) \o "/")}}

\* C23: after any sequence of stores and deletes, listSessionImages(s)
\* returns exactly the references of the artifacts stored for s and not yet
\* deleted, in the form the store returned them, and no artifact of another
\* session.
ListReturnsStoredReferences ==
  (call.fn = "listSessionImages" /\ call.ipc = "answered") =>
     ret.out = StoredReferences(call.sessionId)

\* the phrase computed from the normalized region an annotation has
PhraseOfRegion(annotation) ==
  IF annotation.normalizedCoordinates = NoCoordinates THEN ""
  ELSE generateSpatialDescription(annotation, 1, 1)

ComposedTwice == Composed /\ ret.again # Undefined

\* C24: composing the refinement prompt twice in a row for the same request
\* gives the same text both times, the second call starting from what the
\* first call left on the annotations and on the options object.
ComposingTwiceGivesSameText ==
  ComposedTwice => ret.again = ret.combinedPrompt

\* the first call cut the description on the options object, the second call
\* embedded the cut description
ComposedTwiceAfterDescriptionCut ==
  /\ ComposedTwice
  /\ Len(call.annotations) > 0
  /\ call.imageDescription # Undefined
  /\ ret.imageDescription # call.imageDescription
  /\ Includes(ret.again, AnalysisHeader)

(***************************************************************************)
(* The order of the cuts (specification SpecCompose).                      *)
(***************************************************************************)
\* the short cap of the description with its marker
CappedDescription(description) ==
  IF Truthy(description) /\ Len(description) > maxDescriptionLength
  THEN Substring0(description, maxDescriptionLength)
       \o "... [description truncated to fit DALL-E character limit]"
  ELSE description

\* the prompt holds more of the description than its short cap
EmbedsMoreThanCap ==
  /\ Truthy(call.imageDescription)
  /\ Len(call.imageDescription) > maxDescriptionLength
  /\ Includes(ret.combinedPrompt,
              AnalysisHeader \o "\n"
              \o Substring0(call.imageDescription, maxDescriptionLength + 1))

\* the prompt with the description at its short cap and the feedback whole
PromptWithCappedDescription ==
  IF call.viaReroll
  THEN CombinedTemplate(call.originalPrompt,
         enhancedRefinementPromptOf(
           [BlankMsg EXCEPT !.refinementPrompt = call.feedbackPrompt,
                            !.imageDescription = CappedDescription(call.imageDescription)]))
  ELSE CombinedTemplate(call.originalPrompt, ret.spatialRefinementPrompt)

\* C26: when the composed prompt is over budget the description contained
\* in the prompt is shrunk to its short cap first, and the feedback text is
\* cut only if the prompt is still over budget with the description at that
\* cap, on the refinement path and on the reroll path.
DescriptionIsCutBeforeFeedback ==
  Composed =>
     /\ ret.combinedLength > PromptBudget => ~EmbedsMoreThanCap
     /\ Includes(ret.combinedPrompt, RefinementMarker) =>
           Len(PromptWithCappedDescription) > PromptBudget

(***************************************************************************)
(* The prompt on record, the helper messages and the histories             *)
(* (specification Spec).                                                   *)
(***************************************************************************)
\* C27: on every successful generation or refinement, for every model, the
\* fullPrompt of the result and the fullPrompt stored on the entry are the
\* prompt text that was sent to the image backend.
FullPromptIsPromptSent ==
  \A t \in Successes :
     /\ tasks[t].result.fullPrompt = tasks[t].sent
     /\ tasks[t].pc = "done" =>
           \A i \in EntriesWithId(tasks[t].msg.id) : Entries[i].fullPrompt = tasks[t].sent

\* C28: once the description step of handleRefineImage has finished, the
\* session holds the description message in the place of the loading
\* message and no longer holds the loading message.
LoadingMessageIsReplaced ==
  \A t \in DOMAIN tasks :
     (tasks[t].kind = "refine" /\ tasks[t].pc # "describe") =>
        /\ EntriesWithId(tasks[t].helperId) = {}
        /\ Cardinality(EntriesWithId(tasks[t].msg.id - 2)) = 1

\* C29: every element of the history of every entry is a reference that an
\* earlier successful generation returned; the literal 'placeholder' and
\* empty values never appear in a history.
HistoryHoldsOnlyReturnedReferences ==
  \A i \in DOMAIN Entries :
     Entries[i].history # NoHistory =>
        \A k \in DOMAIN Entries[i].history :
           /\ Entries[i].history[k] \notin {"placeholder", "", Undefined}
           /\ \E t \in Successes : tasks[t].result.imageUrl = Entries[i].history[k]

(***************************************************************************)
(* Removing the session while a generation is in flight.                   *)
(***************************************************************************)
\* sessionActions.remove(session) for the current session
RemoveSession ==
  /\ HasSession(sessions, CurrentSessionId)
  /\ InFlight # {}
  /\ sessions' = SelectSeq(sessions, LAMBDA s : s.id # CurrentSessionId)
  /\ UNCHANGED <<settings, tasks, baseImageDir, files, nextId, nextFile, budget,
                 pollVars, pureVars>>

\* one invocation at a time
InitRemove ==
  /\ settings \in SettingsChoices
  /\ sessions = <<[id |-> CurrentSessionId, messages |-> <<>>]>>
  /\ tasks = <<>>
  /\ baseImageDir = ""
  /\ files = {}
  /\ nextId = 1
  /\ nextFile = 1
  /\ budget = [tasks |-> MaxTasks - 1, inFlight |-> 1]
  /\ PollIdle
  /\ PureIdle

\* the handlers start from the message list of a session that exists
NextRemove ==
  \/ RemoveSession
  \/ Next /\ (HasSession(sessions, CurrentSessionId) \/ Len(tasks') = Len(tasks))

SpecRemove == InitRemove /\ [][NextRemove]_vars

\* C30: once the session has been removed from the store it never
\* reappears: a generation that was in flight for it does not recreate it
\* or add messages to it when it completes.
RemovedSessionNeverReappears ==
  [][~HasSession(sessions, CurrentSessionId) => ~HasSession(sessions', CurrentSessionId)]_vars

====
